---- MODULE Spec2Model ----
(***************************************************************************)
(* EmailAgent decision pipeline: rule engine (src/src/rule_engine.py),     *)
(* safety gate (src/src/safety.py) and action dispatch (src/src/main.py,   *)
(* src/src/email_processor.py, src/src/core/action_registry.py).           *)
(*                                                                         *)
(* Conventions                                                             *)
(*  - a confidence is an integer number of hundredths (0.85 is 85);        *)
(*  - a string that is searched (sender, subject, pattern) is a sequence   *)
(*    of one-character strings, so that lower() and "in" are computed;     *)
(*  - the wall clock (time.time()) is an integer number of seconds that    *)
(*    never goes backwards;                                                *)
(*  - Python's None is None where a string is expected and NoRule where a  *)
(*    MatchedRule is expected.                                             *)
(***************************************************************************)
EXTENDS Integers, Sequences, FiniteSets, TLC

VARIABLES
    rules,            \* RuleEngine.rules / AppConfig.rules (configuration order)
    dry_run,          \* SafetyConfig.dry_run == SafetyModule.dry_run
    confidence_threshold, \* SafetyConfig.confidence_threshold (hundredths)
    max_sends_per_hour,   \* SafetyConfig.max_sends_per_hour
    send_timestamps,  \* SafetyModule._send_timestamps (deque, left end first)
    now,              \* the value time.time() returns
    nticks,           \* how often the clock has advanced (bounds the run)
    sendLog,          \* history: the time of every record_send call ever made
    call,             \* history: the last API call, its inputs and its result
    dispatcher,       \* which dispatcher runs: EmailAgent._execute_action or ActionFactory
    pc,               \* pipeline: position inside _process_single_email
    cur,              \* pipeline: the message in flight and what was decided
    results,          \* pipeline: action_taken of every processed message
    effects           \* pipeline: collaborator calls made so far

vars == <<rules, dry_run, confidence_threshold, max_sends_per_hour,
          send_timestamps, now, nticks, sendLog, call, dispatcher, pc, cur,
          results, effects>>

None == "None"
NoRule == [rule_name |-> None]

----------------------------------------------------------------------------
(* Bounds of the model *)

MaxRules == 2        \* longest rule list enumerated for the rule engine
MaxCap == 2          \* largest max_sends_per_hour enumerated
MaxTicks == 2        \* clock advances per behaviour (API-level runs)
MaxRecords == 2      \* record_send calls per behaviour (API-level runs)
MaxBatch == 2        \* messages per batch (pipeline runs)
MaxHours == 2        \* hours that pass during a batch (pipeline runs)
MaxMailbox == 2      \* messages stored in the mailbox (thread resolver runs)
MaxDepth == 2        \* largest thread_context_depth enumerated
MaxWarnCap == 5      \* max_sends_per_hour and record_send calls (warning runs)

(* Program constants *)

WindowSeconds == 3600
MinSubjectLen == 5

----------------------------------------------------------------------------
(* Strings: str.lower() and the substring test "pattern in actual" *)

Lower(ch) ==
    CASE ch = "A" -> "a"
      [] ch = "B" -> "b"
      [] ch = "V" -> "v"
      [] OTHER -> ch

LowerStr(s) == [i \in 1..Len(s) |-> Lower(s[i])]

\* Python's  p in s  for strings: p occurs as a contiguous substring of s
StrIn(p, s) ==
    \E off \in 0..(Len(s) - Len(p)) :
        \A i \in 1..Len(p) : s[off + i] = p[i]

----------------------------------------------------------------------------
(* Rule engine *)

CondKeys == {"intent", "priority", "confidence_min",
             "sender_contains", "subject_contains"}

Has(conditions, k) == k \in DOMAIN conditions

\* one step of _evaluate_rule per condition: <<checked, passed, literal>>
IntentOk(conditions, classification) ==
    classification.intent = conditions["intent"]

PriorityOk(conditions, classification) ==
    classification.priority = conditions["priority"]

ConfidenceMinBroken(conditions, classification) ==
    classification.confidence > conditions["confidence_min"]

ConfidenceMinOk(conditions, classification) ==
    ~(classification.confidence < conditions["confidence_min"])

SenderOk(conditions, email_data) ==
    StrIn(LowerStr(conditions["sender_contains"]),
          LowerStr(email_data.from_address))

SubjectOk(conditions, email_data) ==
    StrIn(LowerStr(conditions["subject_contains"]),
          LowerStr(email_data.subject))

\* the literal values a fired condition records in matched_conditions
CondLiteral(k, conditions, email_data, classification) ==
    CASE k = "intent" -> <<classification.intent, conditions[k]>>
      [] k = "priority" -> <<classification.priority, conditions[k]>>
      [] k = "confidence_min" -> <<classification.confidence, conditions[k]>>
      [] k = "sender_contains" ->
            <<LowerStr(conditions[k]), LowerStr(email_data.from_address)>>
      [] k = "subject_contains" ->
            <<LowerStr(conditions[k]), LowerStr(email_data.subject)>>

EvaluateRuleAnyCondition(rule, email_data, classification) ==
    LET c == rule.conditions
        ok == \/ (Has(c, "intent") /\ IntentOk(c, classification))
              \/ (Has(c, "priority") /\ PriorityOk(c, classification))
              \/ (Has(c, "confidence_min") /\ ConfidenceMinOk(c, classification))
              \/ (Has(c, "sender_contains") /\ SenderOk(c, email_data))
              \/ (Has(c, "subject_contains") /\ SubjectOk(c, email_data))
              \/ DOMAIN c = {}
    IN  [is_match |-> ok,
         matched_conditions |->
            IF ok THEN [k \in (DOMAIN c) \cap CondKeys |->
                            CondLiteral(k, c, email_data, classification)]
                  ELSE <<>>]

\* RuleEngine._evaluate_rule: (is_match, matched_conditions)
EvaluateRule(rule, email_data, classification) ==
    LET c == rule.conditions
        ok == /\ (Has(c, "intent") => IntentOk(c, classification))
              /\ (Has(c, "priority") => PriorityOk(c, classification))
              /\ (Has(c, "confidence_min") => ConfidenceMinOk(c, classification))
              /\ (Has(c, "sender_contains") => SenderOk(c, email_data))
              /\ (Has(c, "subject_contains") => SubjectOk(c, email_data))
    IN  [is_match |-> ok,
         matched_conditions |->
            IF ok THEN [k \in (DOMAIN c) \cap CondKeys |->
                            CondLiteral(k, c, email_data, classification)]
                  ELSE <<>>]

MakeMatchedRule(rule, matched_conditions) ==
    [rule_name |-> rule.name,
     action |-> rule.action,
     auto_send |-> rule.auto_send,
     template |-> rule.template,
     conditions_matched |-> matched_conditions]

RECURSIVE MatchFrom(_, _, _, _)
MatchFrom(rs, i, email_data, classification) ==
    IF i > Len(rs) THEN NoRule
    ELSE LET ev == EvaluateRule(rs[i], email_data, classification)
         IN  IF ev.is_match
             THEN MakeMatchedRule(rs[i], ev.matched_conditions)
             ELSE MatchFrom(rs, i + 1, email_data, classification)

RECURSIVE MatchLastFrom(_, _, _, _)
MatchLastFrom(rs, i, email_data, classification) ==
    IF i < 1 THEN NoRule
    ELSE LET ev == EvaluateRule(rs[i], email_data, classification)
         IN  IF ev.is_match
             THEN MakeMatchedRule(rs[i], ev.matched_conditions)
             ELSE MatchLastFrom(rs, i - 1, email_data, classification)

MatchLastWins(rs, email_data, classification) ==
    MatchLastFrom(rs, Len(rs), email_data, classification)

MatchConsumingRules(rs, email_data, classification) ==
    IF call.op = "none" THEN MatchFrom(rs, 1, email_data, classification)
    ELSE NoRule

\* RuleEngine.match: the first rule, in list order, that _evaluate_rule accepts
Match(rs, email_data, classification) ==
    MatchFrom(rs, 1, email_data, classification)

----------------------------------------------------------------------------
(* Safety module: the methods read and write the SafetyModule instance, that  *)
(* is the variables dry_run, confidence_threshold, max_sends_per_hour,        *)
(* send_timestamps, and the clock now.                                        *)

SAFE_ACTIONS == {"ignore", "flag", "flag_and_draft"}

CleanInclusive(ts, t) ==
    SelectSeq(ts, LAMBDA x : ~(x <= t - WindowSeconds))

\* _clean_old_timestamps: pop from the left while the leftmost is older than
\* one hour; the deque that is left
RECURSIVE CleanOldTimestamps(_, _)
CleanOldTimestamps(ts, t) ==
    IF ts # <<>> /\ ts[1] < t - WindowSeconds
    THEN CleanOldTimestamps(Tail(ts), t)
    ELSE ts

TimestampsWithEvaluationCounted ==
    Append(CleanOldTimestamps(send_timestamps, now), now)

\* the deque after _clean_old_timestamps() at the current time
CleanedTimestamps == CleanOldTimestamps(send_timestamps, now)

CheckDryRun == dry_run

CheckConfidenceStrict(confidence) == confidence > confidence_threshold

\* _check_confidence
CheckConfidence(confidence) == confidence >= confidence_threshold

CheckRateLimitOffByOne == Len(CleanedTimestamps) <= max_sends_per_hour

\* _check_rate_limit (the value it returns; it also cleans the deque)
CheckRateLimit == Len(CleanedTimestamps) < max_sends_per_hour

\* _get_sends_this_hour (the value it returns; it also cleans the deque)
GetSendsThisHour == Len(CleanedTimestamps)

ApproachingRateLimitAtCap == GetSendsThisHour >= max_sends_per_hour

\* sends_this_hour >= max_sends_per_hour * 0.8
ApproachingRateLimit == 10 * GetSendsThisHour >= 8 * max_sends_per_hour

RuleAction(matched_rule) ==
    IF matched_rule = NoRule THEN "none" ELSE matched_rule.action

AutoSendRequested(matched_rule) ==
    IF matched_rule = NoRule THEN FALSE ELSE matched_rule.auto_send

CanExecuteIgnoringDryRun(classification, matched_rule) ==
    IF RuleAction(matched_rule) \in SAFE_ACTIONS
    THEN CheckConfidence(classification.confidence)
    ELSE CheckConfidence(classification.confidence) /\ CheckRateLimit

CanExecuteRateLimitedAlways(classification, matched_rule) ==
    IF CheckDryRun THEN FALSE
    ELSE CheckConfidence(classification.confidence) /\ CheckRateLimit

\* evaluate: can_execute
CanExecute(classification, matched_rule) ==
    IF CheckDryRun THEN FALSE
    ELSE IF RuleAction(matched_rule) \in SAFE_ACTIONS
         THEN CheckConfidence(classification.confidence)
         ELSE CheckConfidence(classification.confidence) /\ CheckRateLimit

CanAutoSendNoRateLimit(classification, matched_rule) ==
    /\ CanExecute(classification, matched_rule)
    /\ AutoSendRequested(matched_rule)
    /\ ~CheckDryRun
    /\ CheckConfidence(classification.confidence)

\* evaluate: can_auto_send
CanAutoSend(classification, matched_rule) ==
    /\ CanExecute(classification, matched_rule)
    /\ AutoSendRequested(matched_rule)
    /\ ~CheckDryRun
    /\ CheckConfidence(classification.confidence)
    /\ CheckRateLimit

ReasonsSkippedInDryRun(classification) ==
    IF CheckDryRun THEN <<"dry_run_active">>
    ELSE (IF CheckConfidence(classification.confidence)
          THEN <<"confidence_ok">> ELSE <<"confidence_too_low">>)
         \o (IF CheckRateLimit THEN <<"rate_limit_ok">>
             ELSE <<"rate_limit_exceeded">>)

ReasonsOnlyFailures(classification) ==
    (IF CheckDryRun THEN <<"dry_run_active">> ELSE <<>>)
    \o (IF CheckConfidence(classification.confidence)
        THEN <<>> ELSE <<"confidence_too_low">>)
    \o (IF CheckRateLimit THEN <<>> ELSE <<"rate_limit_exceeded">>)

\* evaluate: the reasons list, in the order the gates append to it
Reasons(classification) ==
    (IF CheckDryRun THEN <<"dry_run_active">> ELSE <<>>)
    \o (IF CheckConfidence(classification.confidence)
        THEN <<"confidence_ok">> ELSE <<"confidence_too_low">>)
    \o (IF CheckRateLimit THEN <<"rate_limit_ok">> ELSE <<"rate_limit_exceeded">>)

\* evaluate: the warnings list
Warnings ==
    IF ApproachingRateLimit
    THEN << <<"approaching_rate_limit", GetSendsThisHour, max_sends_per_hour>> >>
    ELSE <<>>

\* SafetyModule.evaluate: the SafetyDecision it returns
Evaluate(classification, matched_rule) ==
    [can_execute |-> CanExecute(classification, matched_rule),
     can_auto_send |-> CanAutoSend(classification, matched_rule),
     reasons |-> Reasons(classification),
     warnings |-> Warnings]

\* SafetyModule.get_status: the dict it returns
GetStatus ==
    [dry_run |-> dry_run,
     confidence_threshold |-> confidence_threshold,
     max_sends_per_hour |-> max_sends_per_hour,
     sends_this_hour |-> GetSendsThisHour,
     rate_limit_remaining |->
        IF max_sends_per_hour - GetSendsThisHour > 0
        THEN max_sends_per_hour - GetSendsThisHour ELSE 0]

----------------------------------------------------------------------------
(* Action dispatch. A handler is computed from the matched rule, the safety  *)
(* decision and what the collaborators answer: gen is the text generate_reply *)
(* returns (None: it failed), sendOk / draftOk / archiveOk what send_reply /  *)
(* save_draft / archive_email return. The result lists the collaborator calls *)
(* in the order they are made.                                                *)

ReplyFamily == {"reply", "draft_reply", "flag_and_draft"}

Outcome(action_taken, reply_text, calls) ==
    [action_taken |-> action_taken, reply_text |-> reply_text, calls |-> calls]

DraftLabelAlwaysDraftSaved(action) == "draft_saved"

\* the label the draft branch returns
DraftLabel(action) ==
    IF action = "flag_and_draft" THEN "flagged_and_drafted" ELSE "draft_saved"

ArchiveOutcomeCallingInDryRun(safety_decision, archiveOk) ==
    IF safety_decision.can_execute
    THEN Outcome(IF archiveOk THEN "archived" ELSE "error", None,
                 <<"archive_email">>)
    ELSE Outcome("skipped", None, <<>>)

\* EmailAgent._execute_action: the ARCHIVE branch; ArchiveAction.execute
ArchiveOutcome(safety_decision, archiveOk) ==
    IF safety_decision.can_execute /\ ~dry_run
    THEN Outcome(IF archiveOk THEN "archived" ELSE "error", None,
                 <<"archive_email">>)
    ELSE IF safety_decision.can_execute
         THEN Outcome("archived", None, <<>>)
         ELSE Outcome("skipped", None, <<>>)

FlagOutcomeOutsideDryRunOnly(safety_decision) ==
    IF safety_decision.can_execute /\ ~dry_run
    THEN Outcome("flagged", None, <<>>)
    ELSE Outcome("skipped", None, <<>>)

\* EmailAgent._execute_action: the FLAG branch; FlagAction.execute
FlagOutcome(safety_decision) ==
    IF safety_decision.can_execute
    THEN Outcome("flagged", None, <<>>)
    ELSE Outcome("skipped", None, <<>>)

IgnoreOutcomeGated(safety_decision) ==
    IF safety_decision.can_execute
    THEN Outcome("ignored", None, <<>>)
    ELSE Outcome("skipped", None, <<>>)

\* EmailAgent._execute_action: the IGNORE branch; IgnoreAction.execute
IgnoreOutcome(safety_decision) == Outcome("ignored", None, <<>>)

GenerationFailedNoneOnly(reply_text) == reply_text = None

\* if not reply_text: None and the empty string are both false
GenerationFailed(reply_text) == reply_text = None \/ reply_text = ""

ShouldSendIgnoringDryRun(safety_decision) == safety_decision.can_auto_send

\* should_send = safety_decision.can_auto_send and not dry_run
ShouldSend(safety_decision) == safety_decision.can_auto_send /\ ~dry_run

DraftCallsAlways == <<"generate_reply", "save_draft">>

\* the SAVE DRAFT branch of ReplyAction.execute: save_draft is called unless
\* dry_run
DraftCalls ==
    IF ~dry_run THEN <<"generate_reply", "save_draft">>
    ELSE <<"generate_reply">>

SendRecordingFailures(gen, sendOk) ==
    Outcome(IF sendOk THEN "reply_sent" ELSE "error", gen,
            <<"generate_reply", "send_reply", "record_send">>)

\* send_reply, then record_send on success (both dispatchers)
SendOutcome(gen, sendOk) ==
    IF sendOk
    THEN Outcome("reply_sent", gen, <<"generate_reply", "send_reply", "record_send">>)
    ELSE Outcome("error", gen, <<"generate_reply", "send_reply">>)

\* EmailAgent._execute_action (src/src/main.py)
InlineExecute(matched_rule, safety_decision, gen, sendOk, draftOk, archiveOk) ==
    LET action == matched_rule.action
        should_send == ShouldSend(safety_decision)
        is_just_draft == action \in {"draft_reply", "flag_and_draft"}
                            /\ ~matched_rule.auto_send
    IN  CASE action = "ignore" -> IgnoreOutcome(safety_decision)
          [] action = "flag" -> FlagOutcome(safety_decision)
          [] action = "archive" -> ArchiveOutcome(safety_decision, archiveOk)
          [] action \in ReplyFamily ->
                IF GenerationFailed(gen)
                THEN Outcome("error", None, <<"generate_reply">>)
                ELSE IF should_send /\ ~is_just_draft
                     THEN SendOutcome(gen, sendOk)
                     ELSE Outcome(DraftLabel(action), gen, <<"generate_reply">>)
          [] OTHER -> Outcome("skipped", None, <<>>)

ReplyActionExecuteGated(matched_rule, safety_decision, gen, sendOk, draftOk) ==
    IF GenerationFailed(gen)
    THEN Outcome("error", None, <<"generate_reply">>)
    ELSE IF ~safety_decision.can_execute
         THEN Outcome("skipped", None, <<"generate_reply">>)
         ELSE IF ShouldSend(safety_decision)
              THEN SendOutcome(gen, sendOk)
              ELSE Outcome(DraftLabel(matched_rule.action), gen, DraftCalls)

ReplyActionExecuteDraftChecked(matched_rule, safety_decision, gen, sendOk, draftOk) ==
    IF GenerationFailed(gen)
    THEN Outcome("error", None, <<"generate_reply">>)
    ELSE IF ShouldSend(safety_decision)
         THEN SendOutcome(gen, sendOk)
         ELSE Outcome(IF ~dry_run /\ ~draftOk THEN "error"
                      ELSE DraftLabel(matched_rule.action), gen, DraftCalls)

\* ReplyAction.execute (src/src/core/action_registry.py)
ReplyActionExecute(matched_rule, safety_decision, gen, sendOk, draftOk) ==
    LET should_send == ShouldSend(safety_decision)
    IN  IF GenerationFailed(gen)
        THEN Outcome("error", None, <<"generate_reply">>)
        ELSE IF should_send
             THEN SendOutcome(gen, sendOk)
             ELSE Outcome(DraftLabel(matched_rule.action), gen, DraftCalls)

\* ActionFactory.get_executor(action).execute(...), as process_single_email
\* of src/src/email_processor.py calls it
RegistryExecute(matched_rule, safety_decision, gen, sendOk, draftOk, archiveOk) ==
    LET action == matched_rule.action
    IN  CASE action \in ReplyFamily ->
                ReplyActionExecute(matched_rule, safety_decision, gen, sendOk, draftOk)
          [] action = "archive" -> ArchiveOutcome(safety_decision, archiveOk)
          [] action = "flag" -> FlagOutcome(safety_decision)
          [] action = "ignore" -> IgnoreOutcome(safety_decision)
          [] OTHER -> Outcome("skipped", None, <<>>)

Dispatch(matched_rule, safety_decision, gen, sendOk, draftOk, archiveOk) ==
    IF dispatcher = "inline"
    THEN InlineExecute(matched_rule, safety_decision, gen, sendOk, draftOk, archiveOk)
    ELSE RegistryExecute(matched_rule, safety_decision, gen, sendOk, draftOk, archiveOk)

----------------------------------------------------------------------------
(* Inputs of the rule engine *)

Intents == {"spam", "newsletter"}
Priorities == {"high", "low"}

\* every condition a rule of the enumeration may list, with its configured value
FullConditions ==
    [intent |-> "spam", priority |-> "high", confidence_min |-> 80,
     sender_contains |-> <<"V", "b">>, subject_contains |-> <<"A", "b">>]

CondUniverse == { [k \in K |-> FullConditions[k]] : K \in SUBSET CondKeys }

RuleNames == <<"Rule1", "Rule2", "Rule3", "Rule4">>
RuleActions == <<"reply", "flag_and_draft", "archive", "ignore">>

\* the rule at position i of an enumerated list: RuleConfig(name, conditions, ...)
RuleAt(i, c) ==
    [name |-> RuleNames[i], conditions |-> c, action |-> RuleActions[i],
     auto_send |-> (i = 1), template |-> None]

\* the rule lists of length n
RuleLists(n) ==
    { [i \in 1..n |-> RuleAt(i, cs[i])] : cs \in [1..n -> CondUniverse] }

Senders == { <<"a", "v", "B">>, <<"b", "v">> }
Subjects == { <<"a", "B", "a">>, <<"b", "a">> }

Emails == [from_address : Senders, subject : Subjects]

RuleClassifications ==
    [intent : Intents, priority : Priorities, confidence : {79, 80}]

NoCall == [op |-> "none"]

\* history of the pipeline's collaborator calls: the time of every successful
\* send_reply, and the calls made for message number msg, the last one
\* finished, with the collaborator that raised while it was processed and
\* the collaborator that answered with a failure (None or False)
NoEffects ==
    [sent |-> <<>>, calls |-> <<>>, msg |-> 0, raised |-> None, failed |-> None]

InitCommon ==
    /\ send_timestamps = <<>>
    /\ now = 0
    /\ nticks = 0
    /\ sendLog = <<>>
    /\ call = NoCall
    /\ pc = "idle"
    /\ cur = NoRule
    /\ results = <<>>
    /\ effects = NoEffects

InitRules ==
    /\ \E n \in 0..MaxRules : rules \in RuleLists(n)
    /\ dry_run = TRUE
    /\ confidence_threshold = 85
    /\ max_sends_per_hour = 1
    /\ dispatcher = "inline"
    /\ InitCommon

\* engine.match(email_data, classification) on the configured rules
MatchCall ==
    \E email_data \in Emails, classification \in RuleClassifications :
        /\ call.op = "none"
        /\ call' = [op |-> "match",
                    email_data |-> email_data,
                    classification |-> classification,
                    result |-> Match(rules, email_data, classification)]
        /\ UNCHANGED <<rules, dry_run, confidence_threshold, max_sends_per_hour,
                       send_timestamps, now, nticks, sendLog, dispatcher, pc,
                       cur, results, effects>>

NextRules == MatchCall

SpecRules == InitRules /\ [][NextRules]_vars

----------------------------------------------------------------------------
(* Rule-engine claims *)

\* the rules of the list that _evaluate_rule accepts for the last match call
Accepted ==
    { i \in 1..Len(rules) :
        EvaluateRule(rules[i], call.email_data, call.classification).is_match }

MinOf(S) == CHOOSE i \in S : \A j \in S : i <= j

\* C1: match returns the accepted rule with the smallest list index; a later
\* accepted rule is never returned, whatever it lists, and none is returned
\* only when no rule is accepted.
C1_FirstMatchWins ==
    call.op = "match" =>
        IF Accepted = {}
        THEN call.result = NoRule
        ELSE /\ call.result # NoRule
             /\ call.result.rule_name = rules[MinOf(Accepted)].name
             /\ call.result.action = rules[MinOf(Accepted)].action
             /\ call.result.auto_send = rules[MinOf(Accepted)].auto_send

\* C1 witness: two rules are accepted, the later one lists more conditions,
\* and the earlier one was returned.
C1_Witness ==
    /\ call.op = "match"
    /\ \E i, j \in Accepted :
          /\ i < j
          /\ Cardinality(DOMAIN rules[j].conditions)
                > Cardinality(DOMAIN rules[i].conditions)
          /\ Cardinality(DOMAIN rules[i].conditions) > 0
          /\ call.result # NoRule
          /\ call.result.rule_name = rules[i].name

\* what the configuration documents for each kind of condition
ConditionHolds(k, conditions, email_data, classification) ==
    CASE k = "intent" -> classification.intent = conditions[k]
      [] k = "priority" -> classification.priority = conditions[k]
      [] k = "confidence_min" -> classification.confidence >= conditions[k]
      [] k = "sender_contains" ->
            \E off \in 0..Len(email_data.from_address) :
                /\ off + Len(conditions[k]) <= Len(email_data.from_address)
                /\ \A i \in 1..Len(conditions[k]) :
                      Lower(email_data.from_address[off + i]) = Lower(conditions[k][i])
      [] k = "subject_contains" ->
            \E off \in 0..Len(email_data.subject) :
                /\ off + Len(conditions[k]) <= Len(email_data.subject)
                /\ \A i \in 1..Len(conditions[k]) :
                      Lower(email_data.subject[off + i]) = Lower(conditions[k][i])

AllListedHold(rule, email_data, classification) ==
    \A k \in DOMAIN rule.conditions :
        ConditionHolds(k, rule.conditions, email_data, classification)

\* C2: a rule is accepted iff every condition it lists holds on its own
\* (intent and priority equal, confidence >= confidence_min, sender and
\* subject containment); match returns none iff no rule of the list has all
\* its conditions holding, and the rule it returns has them all holding.
C2_AllConditionsAnd ==
    call.op = "match" =>
        /\ \A i \in 1..Len(rules) :
              (i \in Accepted) <=>
                  AllListedHold(rules[i], call.email_data, call.classification)
        /\ (call.result = NoRule) <=>
              (\A i \in 1..Len(rules) :
                  ~AllListedHold(rules[i], call.email_data, call.classification))
        /\ call.result # NoRule =>
              \E i \in 1..Len(rules) :
                  /\ rules[i].name = call.result.rule_name
                  /\ AllListedHold(rules[i], call.email_data, call.classification)
                  /\ DOMAIN call.result.conditions_matched = DOMAIN rules[i].conditions

\* C2 witness: a rule listing three conditions of which exactly one fails (the
\* confidence is one hundredth under confidence_min) is not accepted, and no
\* rule of the list is returned.
C2_Witness ==
    /\ call.op = "match"
    /\ call.result = NoRule
    /\ \E i \in 1..Len(rules) :
          /\ Cardinality(DOMAIN rules[i].conditions) = 3
          /\ "confidence_min" \in DOMAIN rules[i].conditions
          /\ call.classification.confidence = rules[i].conditions["confidence_min"] - 1
          /\ \A k \in DOMAIN rules[i].conditions \ {"confidence_min"} :
                ConditionHolds(k, rules[i].conditions, call.email_data,
                               call.classification)

----------------------------------------------------------------------------
(* The safety module driven through its public methods, as its tests do *)

ValidActions == {"reply", "draft_reply", "archive", "flag", "flag_and_draft",
                 "ignore"}

Thresholds == {0, 85}
Confidences == {0, 84, 85}
ClockSteps == {1, WindowSeconds}

\* MatchedRule(rule_name="Test", action=..., auto_send=...)
TestRule(action, auto_send) ==
    [rule_name |-> "Test", action |-> action, auto_send |-> auto_send,
     template |-> None, conditions_matched |-> <<>>]

SafetyRules ==
    { TestRule(a, TRUE) : a \in ValidActions }
    \cup { TestRule("reply", FALSE), TestRule("flag_and_draft", FALSE), NoRule }

\* GeminiAgent._fallback_classification
FallbackClassification ==
    [intent |-> "general_inquiry", priority |-> "medium", confidence |-> 0]

SafetyClassifications ==
    [intent : {"meeting_request"}, priority : {"medium"}, confidence : Confidences]
    \cup {FallbackClassification}

InitSafety ==
    /\ rules = <<>>
    /\ dry_run \in BOOLEAN
    /\ confidence_threshold \in Thresholds
    /\ max_sends_per_hour \in 1..MaxCap
    /\ dispatcher = "inline"
    /\ InitCommon

\* safety.evaluate(classification, matched_rule)
EvaluateCall ==
    \E classification \in SafetyClassifications, matched_rule \in SafetyRules :
        /\ call' = [op |-> "evaluate",
                    classification |-> classification,
                    matched_rule |-> matched_rule,
                    decision |-> Evaluate(classification, matched_rule)]
        /\ send_timestamps' = CleanedTimestamps
        /\ UNCHANGED <<rules, dry_run, confidence_threshold, max_sends_per_hour,
                       now, nticks, sendLog, dispatcher, pc, cur, results,
                       effects>>

\* safety.record_send()
RecordSendCall ==
    /\ Len(sendLog) < MaxRecords
    /\ send_timestamps' = Append(send_timestamps, now)
    /\ sendLog' = Append(sendLog, now)
    /\ call' = [op |-> "record_send"]
    /\ UNCHANGED <<rules, dry_run, confidence_threshold, max_sends_per_hour,
                   now, nticks, dispatcher, pc, cur, results, effects>>

\* safety.get_status()
GetStatusCall ==
    /\ call' = [op |-> "get_status", status |-> GetStatus]
    /\ send_timestamps' = CleanedTimestamps
    /\ UNCHANGED <<rules, dry_run, confidence_threshold, max_sends_per_hour,
                   now, nticks, sendLog, dispatcher, pc, cur, results, effects>>

\* time passes between two calls
Tick ==
    \E d \in ClockSteps :
        /\ nticks < MaxTicks
        /\ now' = now + d
        /\ nticks' = nticks + 1
        /\ call' = NoCall
        /\ UNCHANGED <<rules, dry_run, confidence_threshold, max_sends_per_hour,
                       send_timestamps, sendLog, dispatcher, pc, cur, results,
                       effects>>

NextSafety == EvaluateCall \/ RecordSendCall \/ GetStatusCall \/ Tick

SpecSafety == InitSafety /\ [][NextSafety]_vars

----------------------------------------------------------------------------
(* The pipeline: EmailAgent.run / EmailProcessor.process_single_email over a  *)
(* batch, one message after the other. Each message takes two steps, Decide   *)
(* (classify, match, evaluate) and Execute (dispatch), so that time can pass  *)
(* between the safety evaluation and the send.                                *)

Rule(name, conditions, action, auto_send) ==
    [name |-> name, conditions |-> conditions, action |-> action,
     auto_send |-> auto_send, template |-> None]

\* the rules of tests/test_rule_engine.py, extended by one rule for each
\* action / auto_send combination they leave out and by a rule whose action
\* no handler knows
PipelineRules ==
    << Rule("Spam", [intent |-> "spam"], "ignore", FALSE),
       Rule("Newsletter", [intent |-> "newsletter", confidence_min |-> 80],
            "archive", FALSE),
       Rule("Urgent", [intent |-> "urgent_issue", priority |-> "high"],
            "flag_and_draft", FALSE),
       Rule("Meeting", [intent |-> "meeting_request"], "reply", TRUE),
       Rule("VIP", [intent |-> "general_inquiry",
                    sender_contains |-> <<"V", "b">>], "flag", FALSE),
       Rule("General", [intent |-> "general_inquiry", confidence_min |-> 85],
            "reply", TRUE),
       Rule("FollowUp", [intent |-> "follow_up"], "draft_reply", FALSE),
       Rule("Complaint", [intent |-> "complaint"], "flag_and_draft", TRUE),
       Rule("Forward", [intent |-> "action_required", confidence_min |-> 85],
            "forward", FALSE) >>

PlainEmail == [from_address |-> <<"b", "v">>, subject |-> <<"a", "B", "a">>]
VipEmail == [from_address |-> <<"a", "v", "B">>, subject |-> <<"a", "B", "a">>]

PipelineIntents == {"spam", "newsletter", "urgent_issue", "meeting_request",
                    "general_inquiry", "follow_up", "complaint",
                    "action_required"}

\* classify_email did not return: it raised
ClassifierError == [raised |-> TRUE]

\* what classify_email may return
PipelineClassifications ==
    [intent : PipelineIntents, priority : {"high"}, confidence : {84, 85}]
    \cup {FallbackClassification}

\* the messages of a batch, each with what the classifier answers for it (a
\* classification, or ClassifierError when it raises); only the VIP rule
\* reads the sender
Inbox ==
    [email_data : {PlainEmail},
     classification : PipelineClassifications \cup {ClassifierError}]
    \cup { m \in [email_data : {VipEmail},
                  classification : PipelineClassifications] :
             m.classification.intent = "general_inquiry" }

Init ==
    /\ rules = PipelineRules
    /\ dry_run \in BOOLEAN
    /\ confidence_threshold \in Thresholds
    /\ max_sends_per_hour \in 1..MaxCap
    /\ dispatcher \in {"inline", "registry"}
    /\ send_timestamps = <<>>
    /\ now = 0
    /\ nticks = 0
    /\ sendLog = <<>>
    /\ call = NoCall
    /\ pc = "idle"
    /\ cur = NoRule
    /\ results = <<>>
    /\ effects = NoEffects

TimestampsAlwaysCleaned(matched_rule) == CleanedTimestamps

\* if matched_rule: safety_decision = self.safety.evaluate(...): the deque
\* after the safety step, which runs (and cleans the deque) only for a match
TimestampsAfterSafetyStep(matched_rule) ==
    IF matched_rule = NoRule THEN send_timestamps ELSE CleanedTimestamps

ResultsAfterDroppingErrors(action_taken) ==
    IF action_taken = "error" THEN results ELSE Append(results, action_taken)

\* result = self._process_single_email(email_data, i, len(emails));
\* results.append(result)
ResultsAfter(action_taken) == Append(results, action_taken)

EarlyOutcomeAlwaysSkipped(classification) == "skipped"

\* action_taken of a message whose processing ends before the dispatch: the
\* except branch returns "error", the "if not matched_rule" branch "skipped"
EarlyOutcome(classification) ==
    IF classification = ClassifierError THEN "error" ELSE "skipped"

\* self.rules.match(email_data, classification), reached only when
\* classify_email returned
MatchedRuleOf(m) ==
    IF m.classification = ClassifierError THEN NoRule
    ELSE Match(rules, m.email_data, m.classification)

StepsClassifyingAgain(classification, matched_rule) ==
    IF classification = ClassifierError THEN <<"classify_email">>
    ELSE IF matched_rule = NoRule THEN <<"classify_email", "match">>
    ELSE <<"classify_email", "match", "classify_email", "evaluate">>

\* the steps of _process_single_email before the dispatch, in the order they
\* are called: classify_email, then match if the classifier returned, then
\* evaluate if a rule matched
StepsBeforeDispatch(classification, matched_rule) ==
    IF classification = ClassifierError THEN <<"classify_email">>
    ELSE IF matched_rule = NoRule THEN <<"classify_email", "match">>
    ELSE <<"classify_email", "match", "evaluate">>

\* _process_single_email up to the dispatch: classify, match, evaluate. A
\* message no rule matches is finished here with action_taken "skipped", a
\* message the classifier raised on with "error".
\* call keeps the message this step handled until its dispatch is over.
Decide ==
    \E m \in Inbox :
      \E matched_rule \in {MatchedRuleOf(m)} :
        /\ pc = "idle"
        /\ Len(results) < MaxBatch
        /\ call' = [op |-> "process_single_email",
                    index |-> Len(results) + 1,
                    email_data |-> m.email_data,
                    classification |-> m.classification,
                    matched_rule |-> matched_rule,
                    steps |-> StepsBeforeDispatch(m.classification,
                                                  matched_rule)]
        /\ send_timestamps' = TimestampsAfterSafetyStep(matched_rule)
        /\ IF matched_rule = NoRule
           THEN /\ results' = ResultsAfter(EarlyOutcome(m.classification))
                /\ effects' =
                      [effects EXCEPT
                          !.calls = <<>>,
                          !.msg = Len(results) + 1,
                          !.raised = IF m.classification = ClassifierError
                                     THEN "classify_email" ELSE None,
                          !.failed = None]
                /\ UNCHANGED <<pc, cur>>
           ELSE /\ cur' = [email_data |-> m.email_data,
                           classification |-> m.classification,
                           matched_rule |-> matched_rule,
                           safety_decision |->
                               Evaluate(m.classification, matched_rule)]
                /\ pc' = "decided"
                /\ UNCHANGED <<results, effects>>
        /\ UNCHANGED <<rules, dry_run, confidence_threshold,
                       max_sends_per_hour, now, nticks, sendLog, dispatcher>>

HasCall(calls, name) == \E i \in 1..Len(calls) : calls[i] = name

NeverRecord(calls) == FALSE

\* whether the handler called safety.record_send()
Recorded(calls) == HasCall(calls, "record_send")

\* the collaborators a handler calls that may raise instead of answering
RaisingCollaborators ==
    {"generate_reply", "send_reply", "save_draft", "archive_email"}

\* the first position of a call in the calls of a handler
FirstCall(calls, name) ==
    CHOOSE i \in 1..Len(calls) :
        calls[i] = name /\ \A j \in 1..(i - 1) : calls[j] # name

ExceptReturningSkipped(out, raises) ==
    IF raises = None THEN out
    ELSE Outcome("skipped", None, SubSeq(out.calls, 1, FirstCall(out.calls, raises)))

\* except Exception as e: return ProcessingResult(action_taken="error"): the
\* handler ends at the call that raises, and the message gets "error"
ExceptBranch(out, raises) ==
    IF raises = None THEN out
    ELSE Outcome("error", None, SubSeq(out.calls, 1, FirstCall(out.calls, raises)))

\* a collaborator gave the handler an answer: it was called and did not raise
Answered(calls, raises, name) == HasCall(calls, name) /\ raises # name

\* the collaborator whose answer was a failure: generate_reply returned None,
\* send_reply, archive_email or save_draft returned False
FailedCall(calls, raises, gen, sendOk, draftOk, archiveOk) ==
    CASE Answered(calls, raises, "generate_reply") /\ gen = None -> "generate_reply"
      [] Answered(calls, raises, "send_reply") /\ ~sendOk -> "send_reply"
      [] Answered(calls, raises, "archive_email") /\ ~archiveOk -> "archive_email"
      [] Answered(calls, raises, "save_draft") /\ ~draftOk -> "save_draft"
      [] OTHER -> None

\* _process_single_email from the dispatch on: the handler runs, its
\* collaborators answer or raise, record_send appends the current time
Execute ==
    /\ pc = "decided"
    /\ \E gen \in {"text", None}, sendOk \in BOOLEAN, draftOk \in BOOLEAN,
          archiveOk \in BOOLEAN, raises \in RaisingCollaborators \cup {None} :
        \E handled \in {Dispatch(cur.matched_rule, cur.safety_decision, gen,
                                 sendOk, draftOk, archiveOk)} :
          /\ raises = None \/ HasCall(handled.calls, raises)
          /\ \E out \in {ExceptBranch(handled, raises)} :
            \* an answer a collaborator did not give is not enumerated
            /\ Answered(out.calls, raises, "generate_reply") \/ gen = "text"
            /\ Answered(out.calls, raises, "send_reply") \/ sendOk
            /\ Answered(out.calls, raises, "save_draft") \/ draftOk
            /\ Answered(out.calls, raises, "archive_email") \/ archiveOk
            /\ results' = ResultsAfter(out.action_taken)
            /\ effects' =
                  [sent |-> IF Answered(out.calls, raises, "send_reply") /\ sendOk
                            THEN Append(effects.sent, now) ELSE effects.sent,
                   calls |-> out.calls,
                   msg |-> Len(results) + 1,
                   raised |-> raises,
                   failed |-> FailedCall(out.calls, raises, gen, sendOk,
                                         draftOk, archiveOk)]
            /\ IF Recorded(out.calls)
               THEN /\ send_timestamps' = Append(send_timestamps, now)
                    /\ sendLog' = Append(sendLog, now)
               ELSE UNCHANGED <<send_timestamps, sendLog>>
            /\ pc' = "idle"
            /\ cur' = NoRule
            /\ call' = NoCall
            /\ UNCHANGED <<rules, dry_run, confidence_threshold,
                           max_sends_per_hour, now, nticks, dispatcher>>

\* an hour passes, between two messages or between the safety evaluation of a
\* message and its dispatch
HourPasses ==
    /\ nticks < MaxHours
    /\ now' = now + WindowSeconds
    /\ nticks' = nticks + 1
    /\ UNCHANGED <<rules, dry_run, confidence_threshold, max_sends_per_hour,
                   send_timestamps, sendLog, call, dispatcher, pc, cur, results,
                   effects>>

Next == Decide \/ Execute \/ HourPasses

Spec == Init /\ [][Next]_vars

----------------------------------------------------------------------------
(* Safety-gate claims. They are stated on the history sendLog (every        *)
(* record_send ever made, never evicted), not on the deque the code keeps.  *)

\* the record_send calls made within the trailing 60 minutes of the clock
InWindow == { i \in 1..Len(sendLog) : now - sendLog[i] <= WindowSeconds }

SendsInWindow == Cardinality(InWindow)

Evaluated == call.op = "evaluate"

NonSafeRule(matched_rule) ==
    matched_rule # NoRule /\ matched_rule.action \notin {"ignore", "flag", "flag_and_draft"}

SafeSetRule(matched_rule) ==
    matched_rule # NoRule /\ matched_rule.action \in {"ignore", "flag", "flag_and_draft"}

HasReason(token) ==
    \E i \in 1..Len(call.decision.reasons) : call.decision.reasons[i] = token

\* C3: for a matched rule outside the safe set, can_execute is true iff
\* confidence >= threshold and fewer than max_sends_per_hour sends lie in the
\* trailing window and dry-run is off.
C3_ExecuteGateNonSafe ==
    (Evaluated /\ NonSafeRule(call.matched_rule)) =>
        (call.decision.can_execute <=>
            /\ call.classification.confidence >= confidence_threshold
            /\ SendsInWindow < max_sends_per_hour
            /\ ~dry_run)

\* C3 witness: a reply rule is allowed at exactly the threshold confidence
\* while as many sends as the cap were recorded, one of them now expired.
C3_Witness ==
    /\ Evaluated
    /\ call.matched_rule = TestRule("reply", TRUE)
    /\ call.decision.can_execute
    /\ call.classification.confidence = confidence_threshold
    /\ Len(sendLog) = max_sends_per_hour
    /\ SendsInWindow = max_sends_per_hour - 1

\* C4: in dry-run every decision has can_execute and can_auto_send false and
\* lists dry_run_active among its reasons.
C4_DryRunBlocksAll ==
    (Evaluated /\ dry_run) =>
        /\ ~call.decision.can_execute
        /\ ~call.decision.can_auto_send
        /\ HasReason("dry_run_active")

\* C4 witness: dry-run blocks a safe-set rule with auto_send whose confidence
\* and rate-limit checks both pass.
C4_Witness ==
    /\ Evaluated
    /\ dry_run
    /\ call.matched_rule = TestRule("ignore", TRUE)
    /\ call.classification.confidence >= confidence_threshold
    /\ SendsInWindow < max_sends_per_hour
    /\ HasReason("confidence_ok") /\ HasReason("rate_limit_ok")
    /\ ~call.decision.can_execute

\* C5: with dry-run off, for a safe-set rule can_execute equals the confidence
\* check alone, also with the window at or above the cap, and the reasons then
\* still list rate_limit_exceeded.
C5_SafeSetBypassesRateLimit ==
    (Evaluated /\ ~dry_run /\ SafeSetRule(call.matched_rule)) =>
        /\ call.decision.can_execute <=>
              (call.classification.confidence >= confidence_threshold)
        /\ SendsInWindow >= max_sends_per_hour => HasReason("rate_limit_exceeded")

\* C5 witness: an ignore rule is executable with more sends in the window than
\* the cap.
C5_Witness ==
    /\ Evaluated
    /\ ~dry_run
    /\ call.matched_rule.rule_name # None
    /\ call.matched_rule.action = "ignore"
    /\ SendsInWindow > max_sends_per_hour
    /\ call.decision.can_execute
    /\ HasReason("rate_limit_exceeded")

RequestsAutoSend(matched_rule) ==
    matched_rule # NoRule /\ matched_rule.auto_send

\* C6: can_auto_send is true iff can_execute, the rule requests auto_send,
\* dry-run is off, the confidence check passes and the rate-limit check
\* passes; so can_auto_send implies can_execute.
C6_AutoSendGate ==
    Evaluated =>
        /\ call.decision.can_auto_send <=>
              /\ call.decision.can_execute
              /\ RequestsAutoSend(call.matched_rule)
              /\ ~dry_run
              /\ call.classification.confidence >= confidence_threshold
              /\ SendsInWindow < max_sends_per_hour
        /\ call.decision.can_auto_send => call.decision.can_execute

\* C6 witness: a flag_and_draft rule with auto_send is executable but may not
\* auto-send, because the window is full.
C6_Witness ==
    /\ Evaluated
    /\ call.matched_rule = TestRule("flag_and_draft", TRUE)
    /\ SendsInWindow >= max_sends_per_hour
    /\ call.decision.can_execute
    /\ ~call.decision.can_auto_send

\* C7: the rate-limit check passes iff fewer than max_sends_per_hour sends are
\* recorded in the trailing window: with the cap reached the reasons list
\* rate_limit_exceeded and a non-safe rule is not executable, with one fewer
\* they list rate_limit_ok.
C7_RateLimitCheck ==
    Evaluated =>
        /\ HasReason("rate_limit_ok") <=> SendsInWindow < max_sends_per_hour
        /\ HasReason("rate_limit_exceeded") <=> SendsInWindow >= max_sends_per_hour
        /\ (SendsInWindow >= max_sends_per_hour /\ NonSafeRule(call.matched_rule))
              => ~call.decision.can_execute

\* C7 witness: exactly max_sends_per_hour (at least two) sends were recorded,
\* all inside the window, and a reply rule with passing confidence is blocked.
C7_Witness ==
    /\ Evaluated
    /\ ~dry_run
    /\ max_sends_per_hour >= 2
    /\ Len(sendLog) = max_sends_per_hour
    /\ SendsInWindow = max_sends_per_hour
    /\ call.matched_rule = TestRule("reply", TRUE)
    /\ call.classification.confidence >= confidence_threshold
    /\ ~call.decision.can_execute
    /\ HasReason("rate_limit_exceeded")

\* C8: an evaluate or get_status call sees exactly the sends that are not
\* strictly older than 3600 seconds; once every recorded send is older than
\* that, it sees 0 and the rate-limit check passes again.
C8_WindowReset ==
    /\ Evaluated =>
          /\ Len(send_timestamps) = SendsInWindow
          /\ (sendLog # <<>> /\ InWindow = {}) =>
                (HasReason("rate_limit_ok") /\ call.decision.warnings = <<>>)
    /\ call.op = "get_status" =>
          /\ call.status.sends_this_hour = SendsInWindow
          /\ (sendLog # <<>> /\ InWindow = {}) =>
                /\ call.status.sends_this_hour = 0
                /\ call.status.rate_limit_remaining = max_sends_per_hour

\* C8 witness: the cap was reached, more than 60 minutes passed without a
\* further send, and the evaluation counts no send and passes the rate limit.
C8_Witness ==
    /\ Evaluated
    /\ Len(sendLog) >= max_sends_per_hour
    /\ \A i \in 1..Len(sendLog) : now - sendLog[i] > WindowSeconds
    /\ Len(send_timestamps) = 0
    /\ HasReason("rate_limit_ok")
    /\ ~dry_run
    /\ call.matched_rule = TestRule("reply", TRUE)
    /\ call.decision.can_execute

----------------------------------------------------------------------------
(* Pipeline claims *)

CountOf(seq, x) == Cardinality({ i \in 1..Len(seq) : seq[i] = x })

\* C9: record_send is called only right after send_reply returned success for
\* the same message, once per successful send, and in no other case (failed
\* send, draft, dry-run, flag / archive / ignore); so the recorded sends are
\* the successful sends, as many as there are reply_sent outcomes.
C9_RecordOnlyAfterSuccessfulSend ==
    /\ sendLog = effects.sent
    /\ Len(sendLog) = CountOf(results, "reply_sent")
    /\ dry_run => sendLog = <<>>
    /\ effects.msg > 0 =>
          /\ \A i \in 1..Len(effects.calls) :
                effects.calls[i] = "record_send" =>
                    /\ i > 1
                    /\ effects.calls[i - 1] = "send_reply"
                    /\ results[effects.msg] = "reply_sent"
          /\ CountOf(effects.calls, "record_send")
                = (IF results[effects.msg] = "reply_sent" THEN 1 ELSE 0)
          /\ CountOf(effects.calls, "send_reply") <= 1

\* C9 witness: of two messages one was sent and recorded, and the send of the
\* other failed and was not recorded.
C9_Witness ==
    /\ Len(results) = 2
    /\ results[1] = "reply_sent"
    /\ results[2] = "error"
    /\ effects.msg = 2
    /\ effects.calls = <<"generate_reply", "send_reply">>
    /\ Len(sendLog) = 1

\* the successful sends in the 60 minutes that end at time t
SentInWindowEndingAt(t) ==
    { j \in 1..Len(effects.sent) :
        effects.sent[j] <= t /\ t - effects.sent[j] <= WindowSeconds }

\* C10: when the messages of a batch are processed one after the other, no
\* trailing 60-minute window holds more than max_sends_per_hour successful
\* sends (a window with the most sends ends at a send or now).
C10_SendsPerWindowBounded ==
    /\ Cardinality(SentInWindowEndingAt(now)) <= max_sends_per_hour
    /\ \A i \in 1..Len(effects.sent) :
          Cardinality(SentInWindowEndingAt(effects.sent[i])) <= max_sends_per_hour

\* C10 witness: as many sends as the cap lie in the window, and the next
\* message, a reply rule with auto_send and passing confidence, is denied
\* auto-send.
C10_Witness ==
    /\ pc = "decided"
    /\ ~dry_run
    /\ Cardinality(SentInWindowEndingAt(now)) = max_sends_per_hour
    /\ cur.matched_rule.action = "reply"
    /\ cur.matched_rule.auto_send
    /\ cur.classification.confidence >= confidence_threshold
    /\ ~cur.safety_decision.can_auto_send

\* a step of the pipeline that handled a message up to the dispatch
DecideStep ==
    /\ pc = "idle"
    /\ call'.op = "process_single_email"
    /\ call'.classification # ClassifierError
    /\ (results' # results \/ pc' # pc)

\* the message handled is matched by no rule of the list
NoRuleHolds(email_data, classification) ==
    \A i \in 1..Len(rules) : ~AllListedHold(rules[i], email_data, classification)

\* C13: a message that no rule matches gets the outcome skipped at once: no
\* handler runs, no collaborator is called, and the safety gate is not
\* evaluated, so the deque of send timestamps is left as it is.
C13_NoMatchSkipsUntouched ==
    [][ (DecideStep /\ NoRuleHolds(call'.email_data, call'.classification)) =>
            /\ results' = Append(results, "skipped")
            /\ pc' = "idle"
            /\ cur' = cur
            /\ effects'.calls = <<>>
            /\ effects'.msg = Len(results')
            /\ effects'.sent = effects.sent
            /\ send_timestamps' = send_timestamps
            /\ sendLog' = sendLog ]_vars

\* C13 witness: a message without a matching rule was skipped while the deque
\* still holds a timestamp older than an hour, which an evaluation would
\* have evicted.
C13_Witness ==
    /\ pc = "idle"
    /\ call.op = "process_single_email"
    /\ call.matched_rule = NoRule
    /\ call.classification # ClassifierError
    /\ NoRuleHolds(call.email_data, call.classification)
    /\ results[Len(results)] = "skipped"
    /\ effects.calls = <<>>
    /\ send_timestamps # <<>>
    /\ send_timestamps[1] < now - WindowSeconds

----------------------------------------------------------------------------
(* Thread resolver (src/src/clients/gmail_client.py). A Message-ID is a      *)
(* sequence of one-character strings, written without surrounding blanks, so *)
(* that str.strip() leaves it as it is; the empty sequence is a missing or   *)
(* empty header (None and "" are both false in Python). A subject is a       *)
(* sequence whose elements are letters or one reply / forward prefix each.   *)
(* A Date header is a record: kind "none" (missing or unparseable), "aware"  *)
(* (with a UTC offset) or "naive" (offset -0000), and t its instant (>= 1).  *)
(* The connection is a record: messages, the stored messages of the selected *)
(* mailbox in IMAP order, each as _fetch_single_email returns it, and        *)
(* failing, the transport operations that raise: connecting, a search, the   *)
(* fetch of a message.                                                       *)

NoId == <<>>

\* GmailClient._email_data_to_thread_dict (from and body are left out)
EmailDataToThreadDict(email_data) ==
    [message_id |-> email_data.message_id,
     date |-> email_data.date,
     subject |-> email_data.subject]

\* the non-empty message_id values of a list of thread dicts
MessageIdsOf(msgs) == { msgs[i].message_id : i \in 1..Len(msgs) } \ {NoId}

Connection(messages, failing) == [messages |-> messages, failing |-> failing]

HeaderQuery(value) == [kind |-> "header", value |-> value]
SubjectQuery(value) == [kind |-> "subject", value |-> value]
ConnectOp == [kind |-> "connect"]
FetchOp(message_id) == [kind |-> "fetch", message_id |-> message_id]

\* self._connect_imap() and connection.select(mailbox) succeed
Connects(connection) == ConnectOp \notin connection.failing

\* connection.search(None, criteria) raises for this query
SearchRaises(connection, query) == query \in connection.failing

\* _fetch_single_email(connection, msg_id) returns the message (it raises or
\* returns None otherwise, and the caller goes on with the next message)
Fetched(connection, m) == FetchOp(m.message_id) \notin connection.failing

\* IMAP  SEARCH HEADER Message-ID "value": the messages whose header contains
\* the value (RFC 3501), in mailbox order
SearchHeader(connection, value) ==
    SelectSeq(connection.messages, LAMBDA m : StrIn(value, m.message_id))

SearchByHeaderIgnoringFailures(connection, header_value, seen_ids) ==
    LET found == SearchHeader(connection, header_value)
        kept == SelectSeq(found, LAMBDA m :
                    ~(m.message_id # NoId /\ m.message_id \in seen_ids))
    IN  [i \in 1..Len(kept) |-> EmailDataToThreadDict(kept[i])]

\* GmailClient._search_by_header(connection, "Message-ID", header_value,
\* seen_ids): a search that raises gives no result, a message whose fetch
\* fails is left out
SearchByHeader(connection, header_value, seen_ids) ==
    IF SearchRaises(connection, HeaderQuery(header_value)) THEN <<>>
    ELSE LET found == SearchHeader(connection, header_value)
             kept == SelectSeq(found, LAMBDA m :
                        /\ Fetched(connection, m)
                        /\ ~(m.message_id # NoId /\ m.message_id \in seen_ids))
         IN  [i \in 1..Len(kept) |-> EmailDataToThreadDict(kept[i])]

\* if not ref_id or ref_id in seen_ids: continue
Skips(ref_id, seen_ids) == ref_id = NoId \/ ref_id \in seen_ids

\* the loop of _fetch_thread_by_references from position i of the chain on;
\* queries logs the searches issued, and with each the number of messages
\* accumulated when it was issued
RECURSIVE FetchThreadByReferencesFrom(_, _, _, _, _, _, _)
FetchThreadByReferencesFrom(connection, chain, i, seen_ids, acc, queries, depth) ==
    IF i > Len(chain)
    THEN [messages |-> acc, seen_ids |-> seen_ids, queries |-> queries.issued,
          before |-> queries.before]
    ELSE IF Skips(chain[i], seen_ids)
    THEN FetchThreadByReferencesFrom(connection, chain, i + 1, seen_ids, acc,
                                     queries, depth)
    ELSE LET found == SearchByHeader(connection, chain[i], seen_ids)
             acc2 == acc \o found
             seen2 == seen_ids \cup MessageIdsOf(found)
             queries2 == [issued |-> Append(queries.issued, HeaderQuery(chain[i])),
                          before |-> Append(queries.before, Len(acc))]
         IN  IF Len(acc2) >= depth
             THEN [messages |-> acc2, seen_ids |-> seen2,
                   queries |-> queries2.issued, before |-> queries2.before]
             ELSE FetchThreadByReferencesFrom(connection, chain, i + 1, seen2,
                                              acc2, queries2, depth)

\* GmailClient._fetch_thread_by_references, with self.thread_context_depth = depth
FetchThreadByReferences(connection, reference_chain, seen_ids, depth) ==
    FetchThreadByReferencesFrom(connection, reference_chain, 1, seen_ids, <<>>,
                                [issued |-> <<>>, before |-> <<>>], depth)

SubjectPrefixes == {"Re:", "RE:", "re:", "Fwd:", "FWD:", "fwd:", "Fw:", "FW:"}

\* for prefix in [...]: clean_subject = clean_subject.replace(prefix, "").strip()
CleanSubject(subject) == SelectSeq(subject, LAMBDA ch : ch \notin SubjectPrefixes)

\* the fetch-and-filter loop of _fetch_thread_by_subject from position i on
RECURSIVE FetchThreadBySubjectFrom(_, _, _, _, _, _)
FetchThreadBySubjectFrom(found, clean_subject, i, seen_ids, acc, depth) ==
    IF i > Len(found) \/ Len(acc) >= depth
    THEN acc
    ELSE IF found[i].message_id # NoId /\ found[i].message_id \in seen_ids
    THEN FetchThreadBySubjectFrom(found, clean_subject, i + 1, seen_ids, acc,
                                  depth)
    ELSE IF LowerStr(CleanSubject(found[i].subject)) # LowerStr(clean_subject)
    THEN FetchThreadBySubjectFrom(found, clean_subject, i + 1, seen_ids, acc,
                                  depth)
    ELSE FetchThreadBySubjectFrom(found, clean_subject, i + 1,
            IF found[i].message_id # NoId
            THEN seen_ids \cup {found[i].message_id} ELSE seen_ids,
            Append(acc, EmailDataToThreadDict(found[i])), depth)

\* GmailClient._fetch_thread_by_subject, with self.thread_context_depth = depth;
\* IMAP  SEARCH SUBJECT  is a case-insensitive substring search
FetchThreadBySubject(connection, subject, seen_ids, depth) ==
    LET clean_subject == CleanSubject(subject)
    IN  IF Len(clean_subject) < MinSubjectLen
        THEN [messages |-> <<>>, queries |-> <<>>]
        ELSE IF SearchRaises(connection, SubjectQuery(clean_subject))
        THEN [messages |-> <<>>, queries |-> << SubjectQuery(clean_subject) >>]
        ELSE [messages |->
                FetchThreadBySubjectFrom(
                    SelectSeq(connection.messages, LAMBDA m :
                        /\ StrIn(LowerStr(clean_subject), LowerStr(m.subject))
                        /\ Fetched(connection, m)),
                    clean_subject, 1, seen_ids, <<>>, depth),
              queries |-> << SubjectQuery(clean_subject) >>]

\* the de-duplication loop of _sort_and_limit_thread from position i on
RECURSIVE DedupFrom(_, _, _, _)
DedupFrom(msgs, i, seen, unique) ==
    IF i > Len(msgs) THEN unique
    ELSE IF msgs[i].message_id # NoId /\ msgs[i].message_id \in seen
    THEN DedupFrom(msgs, i + 1, seen, unique)
    ELSE DedupFrom(msgs, i + 1,
                   IF msgs[i].message_id # NoId
                   THEN seen \cup {msgs[i].message_id} ELSE seen,
                   Append(unique, msgs[i]))

\* parse_date_safe: datetime.min (naive, before every instant) when the date
\* is missing or unparseable, else parsedate_to_datetime(date_str)
ParseDateSafe(msg) ==
    IF msg.date.kind = "none" THEN [aware |-> FALSE, t |-> 0]
    ELSE [aware |-> msg.date.kind = "aware", t |-> msg.date.t]

\* list.sort compares keys with <; Python raises TypeError when an
\* offset-naive and an offset-aware datetime are compared, which a sort of a
\* list holding both kinds cannot avoid
SortRaises(msgs) ==
    \E i, j \in 1..Len(msgs) :
        ParseDateSafe(msgs[i]).aware # ParseDateSafe(msgs[j]).aware

\* insert msg behind every element whose key is not greater (a stable sort)
RECURSIVE InsertByDate(_, _)
InsertByDate(sorted, msg) ==
    IF sorted = <<>> THEN <<msg>>
    ELSE IF ParseDateSafe(msg).t < ParseDateSafe(sorted[Len(sorted)]).t
    THEN Append(InsertByDate(SubSeq(sorted, 1, Len(sorted) - 1), msg),
                sorted[Len(sorted)])
    ELSE Append(sorted, msg)

RECURSIVE SortByDateFrom(_, _, _)
SortByDateFrom(msgs, i, sorted) ==
    IF i > Len(msgs) THEN sorted
    ELSE SortByDateFrom(msgs, i + 1, InsertByDate(sorted, msgs[i]))

\* unique.sort(key=parse_date_safe), when it does not raise
SortByDate(msgs) == SortByDateFrom(msgs, 1, <<>>)

\* Python's  seq[-n:]  for 0 <= n < len(seq): the last n elements, but the
\* whole list when n = 0, because -0 is 0
LastSlice(seq, n) ==
    IF n = 0 THEN seq ELSE SubSeq(seq, Len(seq) - n + 1, Len(seq))

\* GmailClient._sort_and_limit_thread, with self.thread_context_depth = depth:
\* raised tells whether the sort raised, value is what is returned otherwise
SortAndLimitThread(thread_messages, depth) ==
    IF thread_messages = <<>> THEN [raised |-> FALSE, value |-> <<>>]
    ELSE LET unique == DedupFrom(thread_messages, 1, {}, <<>>)
         IN  IF SortRaises(unique) THEN [raised |-> TRUE, value |-> <<>>]
             ELSE LET sorted == SortByDate(unique)
                  IN  [raised |-> FALSE,
                       value |-> IF Len(sorted) > depth
                                 THEN LastSlice(sorted, depth) ELSE sorted]

\* the max_messages argument: left at its default None, or an integer
NoMax == [given |-> FALSE]
MaxMessages(n) == [given |-> TRUE, n |-> n]

\* max_messages or self.thread_context_depth
EffectiveDepth(max_messages, thread_context_depth) ==
    IF ~max_messages.given \/ max_messages.n = 0
    THEN thread_context_depth ELSE max_messages.n

\* self.thread_context_depth after the "Sort and limit" lines of
\* fetch_thread_context: the assignment that restores original_depth follows
\* the call of _sort_and_limit_thread and is not reached when that raises
DepthAfterSort(limited, effective_depth, original_depth) ==
    IF limited.raised THEN effective_depth ELSE original_depth

\* a strategy that did not run
NotRun == [messages |-> <<>>, queries |-> <<>>]

NoStrategies ==
    [chain |-> [messages |-> <<>>, queries |-> <<>>, before |-> <<>>],
     parent |-> NotRun, subject |-> NotRun]

\* if in_reply_to and len(thread_messages) == 0
DirectParentRuns(in_reply_to, thread_messages) ==
    in_reply_to # NoId /\ Len(thread_messages) = 0

\* if len(thread_messages) == 0 and subject
SubjectFallbackRuns(subject, thread_messages) ==
    Len(thread_messages) = 0 /\ subject # <<>>

\* strategies 1-3 of fetch_thread_context and _populate_thread_context: the
\* accumulated thread_messages, the transport queries issued, and what each
\* strategy issued and found. The chain search runs with chain_depth, the
\* subject search with subject_depth.
AccumulateThread(connection, message_id, reference_chain, in_reply_to, subject, chain_depth, subject_depth) ==
    LET seen0 == IF message_id # NoId THEN {message_id} ELSE {}
        s1 == IF reference_chain # <<>>
              THEN FetchThreadByReferences(connection, reference_chain, seen0,
                                           chain_depth)
              ELSE [messages |-> <<>>, seen_ids |-> seen0, queries |-> <<>>,
                    before |-> <<>>]
        s2 == IF DirectParentRuns(in_reply_to, s1.messages)
              THEN [messages |-> SearchByHeader(connection, in_reply_to, s1.seen_ids),
                    queries |-> << HeaderQuery(in_reply_to) >>]
              ELSE NotRun
        seen2 == s1.seen_ids \cup MessageIdsOf(s2.messages)
        acc2 == s1.messages \o s2.messages
        s3 == IF SubjectFallbackRuns(subject, acc2)
              THEN FetchThreadBySubject(connection, subject, seen2, subject_depth)
              ELSE NotRun
    IN  [messages |-> acc2 \o s3.messages,
         queries |-> s1.queries \o s2.queries \o s3.queries,
         strategies |->
            [chain |-> [messages |-> s1.messages, queries |-> s1.queries,
                        before |-> s1.before],
             parent |-> s2, subject |-> s3]]

\* GmailClient.fetch_thread_context(message_id, references, in_reply_to,
\* subject, max_messages=max_messages) on a client configured with
\* thread_context_depth: what it returns and the queries it issued
FetchThreadContext(connection, message_id, reference_chain, in_reply_to, subject, max_messages, thread_context_depth) ==
    IF message_id = NoId /\ reference_chain = <<>> /\ in_reply_to = NoId
    THEN [thread_messages |-> <<>>, queries |-> <<>>, connected |-> FALSE,
          strategies |-> NoStrategies, depth_after |-> thread_context_depth]
    ELSE IF ~Connects(connection)
    THEN [thread_messages |-> <<>>, queries |-> <<>>, connected |-> FALSE,
          strategies |-> NoStrategies, depth_after |-> thread_context_depth]
    ELSE LET effective_depth == EffectiveDepth(max_messages, thread_context_depth)
             acc == AccumulateThread(connection, message_id, reference_chain,
                                     in_reply_to, subject, effective_depth,
                                     thread_context_depth)
             limited == SortAndLimitThread(acc.messages, effective_depth)
         IN  [thread_messages |-> IF limited.raised THEN acc.messages
                                  ELSE limited.value,
              queries |-> acc.queries,
              connected |-> TRUE,
              strategies |-> acc.strategies,
              depth_after |-> DepthAfterSort(limited, effective_depth,
                                             thread_context_depth)]

\* GmailClient._populate_thread_context(connection, email_data, connection) on a
\* client configured with thread_context_depth: email_data.thread_messages
\* afterwards and the queries issued
PopulateThreadContext(connection, email_data, thread_context_depth) ==
    LET acc == AccumulateThread(connection, email_data.message_id,
                                email_data.reference_chain,
                                email_data.in_reply_to, email_data.subject,
                                thread_context_depth, thread_context_depth)
        limited == SortAndLimitThread(acc.messages, thread_context_depth)
    IN  [thread_messages |-> IF limited.raised THEN <<>> ELSE limited.value,
         queries |-> acc.queries,
         connected |-> TRUE,
         strategies |-> acc.strategies,
         depth_after |-> thread_context_depth]

----------------------------------------------------------------------------
(* The thread resolver called on a mailbox *)

\* a Date header: missing or unparseable, with a time zone, or without one
NoDate == [kind |-> "none"]
Aware(t) == [kind |-> "aware", t |-> t]
Naive(t) == [kind |-> "naive", t |-> t]

ThreadSubject == <<"a", "b", "b", "a", "v">>
ReplySubject == <<"Re:", "A", "b", "b", "a", "v">>
LongerSubject == <<"a", "b", "b", "a", "v", "a">>

StoredMessage(message_id, date, subject) ==
    [message_id |-> message_id, date |-> date, subject |-> subject]

\* the messages a mailbox may hold; <<"c">> is the identifier of the message
\* that is resolved, <<"a">> occurs inside <<"a", "b">>
StoredMessages ==
    { StoredMessage(<<"a">>, Aware(2), ReplySubject),
      StoredMessage(<<"a">>, NoDate, ThreadSubject),
      StoredMessage(<<"a", "b">>, Aware(1), ThreadSubject),
      StoredMessage(<<"b">>, Aware(3), LongerSubject),
      StoredMessage(<<"b">>, Naive(2), ThreadSubject),
      StoredMessage(<<"c">>, Aware(4), ReplySubject),
      StoredMessage(NoId, Aware(1), ThreadSubject) }

Mailboxes(n) == [1..n -> StoredMessages]

\* the transport operations that raise during a resolution: none, the
\* connection, the search for <<"a">>, the subject search, or the fetch of
\* the messages with identifier <<"a">>
FailurePlans ==
    { {}, {ConnectOp}, {HeaderQuery(<<"a">>)},
      {SubjectQuery(CleanSubject(ReplySubject))}, {FetchOp(<<"a">>)} }

\* the thread-linking fields of the message that is resolved
SourceMessages ==
    [message_id : {NoId, <<"c">>},
     reference_chain : { <<>>, << <<"a">> >>, << <<"c">>, <<"a">>, <<"b">> >> },
     in_reply_to : {NoId, <<"a">>},
     subject : { <<>>, ReplySubject }]

\* EmailData.is_part_of_thread, before thread_messages is filled
IsPartOfThread(email_data) ==
    email_data.in_reply_to # NoId \/ email_data.reference_chain # <<>>

InitThread ==
    /\ rules = <<>>
    /\ dry_run = TRUE
    /\ confidence_threshold = 85
    /\ max_sends_per_hour = 1
    /\ dispatcher = "inline"
    /\ InitCommon

\* gmail.fetch_thread_context(message_id, references, in_reply_to, subject,
\* max_messages=...) on a client configured with thread_context_depth
FetchThreadContextCall ==
  /\ call.op = "none"
  /\ \E n \in 0..MaxMailbox, thread_context_depth \in 0..MaxDepth :
      \E mailbox \in Mailboxes(n), email_data \in SourceMessages,
         max_messages \in {NoMax, MaxMessages(0), MaxMessages(1)},
         failing \in FailurePlans :
        /\ call' = [op |-> "fetch_thread_context",
                    mailbox |-> mailbox,
                    failing |-> failing,
                    email_data |-> email_data,
                    thread_context_depth |-> thread_context_depth,
                    max_messages |-> max_messages,
                    result |-> FetchThreadContext(Connection(mailbox, failing),
                                  email_data.message_id,
                                  email_data.reference_chain,
                                  email_data.in_reply_to, email_data.subject,
                                  max_messages, thread_context_depth)]
        /\ UNCHANGED <<rules, dry_run, confidence_threshold, max_sends_per_hour,
                       send_timestamps, now, nticks, sendLog, dispatcher, pc,
                       cur, results, effects>>

\* fetch_unread_emails, step 5, for one unread message: its thread context is
\* populated if the depth is positive and the message is part of a thread
PopulateThreadContextCall ==
  /\ call.op = "none"
  /\ \E n \in 0..MaxMailbox, thread_context_depth \in 0..MaxDepth :
      \E mailbox \in Mailboxes(n), email_data \in SourceMessages,
         failing \in FailurePlans \ {{ConnectOp}} :
        /\ call' = [op |-> "populate_thread_context",
                    mailbox |-> mailbox,
                    failing |-> failing,
                    email_data |-> email_data,
                    thread_context_depth |-> thread_context_depth,
                    max_messages |-> NoMax,
                    result |->
                        IF thread_context_depth > 0 /\ IsPartOfThread(email_data)
                        THEN PopulateThreadContext(Connection(mailbox, failing),
                                                   email_data,
                                                   thread_context_depth)
                        ELSE [thread_messages |-> <<>>, queries |-> <<>>,
                              connected |-> FALSE,
                              strategies |-> NoStrategies,
                              depth_after |-> thread_context_depth]]
        /\ UNCHANGED <<rules, dry_run, confidence_threshold, max_sends_per_hour,
                       send_timestamps, now, nticks, sendLog, dispatcher, pc,
                       cur, results, effects>>

NextThread == FetchThreadContextCall \/ PopulateThreadContextCall

SpecThread == InitThread /\ [][NextThread]_vars

----------------------------------------------------------------------------
(* Thread-resolver claims *)

Resolved == call.op \in {"fetch_thread_context", "populate_thread_context"}

\* the depth limit a resolution was asked for: the max_messages argument when
\* it is given, else the configured thread_context_depth
DepthLimit ==
    IF call.max_messages.given THEN call.max_messages.n
    ELSE call.thread_context_depth

\* C11: the prior messages the resolver returns hold no entry with the
\* identifier of the resolved message and are at most depth_limit many, for
\* every depth_limit including 0.
C11_NoSelfAndAtMostDepthLimit ==
    Resolved =>
        /\ \A i \in 1..Len(call.result.thread_messages) :
              call.email_data.message_id # NoId =>
                  call.result.thread_messages[i].message_id
                      # call.email_data.message_id
        /\ Len(call.result.thread_messages) <= DepthLimit

----------------------------------------------------------------------------
(* The rule engine called twice on the same engine *)

InitMatchTwice ==
    /\ rules \in RuleLists(0) \cup RuleLists(1) \cup {PipelineRules}
    /\ dry_run = FALSE
    /\ confidence_threshold = 85
    /\ max_sends_per_hour = 1
    /\ dispatcher = "inline"
    /\ InitCommon

\* a second engine.match(email_data, classification) on the same engine; the
\* first call and what it returned are kept for comparison
MatchAgainCall ==
    \E email_data \in Emails, classification \in RuleClassifications :
        /\ call.op = "match"
        /\ call' = [op |-> "match_again",
                    email_data |-> email_data,
                    classification |-> classification,
                    result |-> Match(rules, email_data, classification),
                    first |-> call]
        /\ UNCHANGED <<rules, dry_run, confidence_threshold, max_sends_per_hour,
                       send_timestamps, now, nticks, sendLog, dispatcher, pc,
                       cur, results, effects>>

NextMatchTwice == MatchCall \/ MatchAgainCall

SpecMatchTwice == InitMatchTwice /\ [][NextMatchTwice]_vars

----------------------------------------------------------------------------
(* The action handlers called directly: execute(email_data, classification, *)
(* matched_rule, safety_decision, config, clients) takes the safety         *)
(* decision as an argument, so every decision is enumerated, also those the *)
(* safety module does not produce under the same configuration.             *)

DispatchRules == { TestRule(a, s) : a \in ValidActions, s \in BOOLEAN }

\* SafetyDecision(can_execute, can_auto_send, reasons, warnings)
SafetyDecisions ==
    [can_execute : BOOLEAN, can_auto_send : BOOLEAN,
     reasons : { <<>> }, warnings : { <<>> }]

\* what generate_reply may return: a text, the empty string, or None
GeneratedReplies == {"text", "", None}

InitDispatch ==
    /\ rules = <<>>
    /\ dry_run \in BOOLEAN
    /\ confidence_threshold = 85
    /\ max_sends_per_hour = 1
    /\ dispatcher \in {"inline", "registry"}
    /\ InitCommon

\* one call of the dispatcher on a matched rule and a safety decision
ExecuteCall ==
    /\ Len(sendLog) < MaxRecords
    /\ \E matched_rule \in DispatchRules, safety_decision \in SafetyDecisions,
          gen \in GeneratedReplies, sendOk \in BOOLEAN, draftOk \in BOOLEAN,
          archiveOk \in BOOLEAN :
        \E out \in {Dispatch(matched_rule, safety_decision, gen, sendOk,
                             draftOk, archiveOk)} :
            \* an answer of a collaborator that is not called is not enumerated
            /\ HasCall(out.calls, "generate_reply") \/ gen = "text"
            /\ HasCall(out.calls, "send_reply") \/ sendOk
            /\ HasCall(out.calls, "save_draft") \/ draftOk
            /\ HasCall(out.calls, "archive_email") \/ archiveOk
            /\ call' = [op |-> "execute",
                        matched_rule |-> matched_rule,
                        safety_decision |-> safety_decision,
                        gen |-> gen, sendOk |-> sendOk, draftOk |-> draftOk,
                        archiveOk |-> archiveOk,
                        out |-> out]
            /\ IF Recorded(out.calls)
               THEN /\ send_timestamps' = Append(send_timestamps, now)
                    /\ sendLog' = Append(sendLog, now)
               ELSE UNCHANGED <<send_timestamps, sendLog>>
            /\ UNCHANGED <<rules, dry_run, confidence_threshold,
                           max_sends_per_hour, now, nticks, dispatcher, pc,
                           cur, results, effects>>

NextDispatch == ExecuteCall

SpecDispatch == InitDispatch /\ [][NextDispatch]_vars

----------------------------------------------------------------------------
(* Dispatcher claims *)

Executed(action) == call.op = "execute" /\ call.matched_rule.action = action

MailCollaborators == {"send_reply", "save_draft", "archive_email"}

NoMailCall(calls) == \A i \in 1..Len(calls) : calls[i] \notin MailCollaborators

\* C14: a rule with action ignore yields the outcome ignored for every safety
\* decision and with dry-run on or off, and no mail collaborator is called.
C14_IgnoreUnconditional ==
    Executed("ignore") =>
        /\ call.out.action_taken = "ignored"
        /\ call.out.reply_text = None
        /\ NoMailCall(call.out.calls)
        /\ ~HasCall(call.out.calls, "generate_reply")
        /\ ~HasCall(call.out.calls, "record_send")

\* C14 witness: ignore was executed although the decision denies execution,
\* outside dry-run.
C14_Witness ==
    /\ Executed("ignore")
    /\ ~call.safety_decision.can_execute
    /\ ~dry_run
    /\ call.out.action_taken = "ignored"

\* C15: a rule with action flag yields flagged iff the decision's can_execute
\* is true and skipped otherwise, and nothing else.
C15_FlagGatedByCanExecute ==
    Executed("flag") =>
        /\ call.out.action_taken \in {"flagged", "skipped"}
        /\ call.out.action_taken = "flagged" <=> call.safety_decision.can_execute
        /\ call.out.action_taken = "skipped" <=> ~call.safety_decision.can_execute

\* C15 witness: a flag is executed under a dry-run configuration because the
\* decision allows it.
C15_Witness ==
    /\ Executed("flag")
    /\ call.safety_decision.can_execute
    /\ dry_run
    /\ call.out.action_taken = "flagged"

\* C16: a rule with action archive: with can_execute and not dry-run the
\* archive collaborator is called once and the outcome is archived if it
\* succeeds and error if it fails; with can_execute and dry-run the outcome is
\* archived without a call; without can_execute it is skipped without a call.
C16_ArchiveThreeWays ==
    Executed("archive") =>
        /\ (call.safety_decision.can_execute /\ ~dry_run) =>
              /\ CountOf(call.out.calls, "archive_email") = 1
              /\ call.out.action_taken
                    = (IF call.archiveOk THEN "archived" ELSE "error")
        /\ (call.safety_decision.can_execute /\ dry_run) =>
              /\ call.out.action_taken = "archived"
              /\ CountOf(call.out.calls, "archive_email") = 0
        /\ ~call.safety_decision.can_execute =>
              /\ call.out.action_taken = "skipped"
              /\ CountOf(call.out.calls, "archive_email") = 0

\* C16 witness: the archive is simulated in dry-run: archived, no call.
C16_Witness ==
    /\ Executed("archive")
    /\ call.safety_decision.can_execute
    /\ dry_run
    /\ call.out.action_taken = "archived"
    /\ call.out.calls = <<>>

GeneratedOk == call.gen # None /\ call.gen # ""

ReplyFamilyExecuted ==
    call.op = "execute"
        /\ call.matched_rule.action \in {"reply", "draft_reply", "flag_and_draft"}

\* a step in which the dispatcher ran
ExecuteStep == call'.op = "execute" /\ <<call, sendLog>>' # <<call, sendLog>>

\* C17: for reply, draft_reply and flag_and_draft, when generate_reply returns
\* None or the empty text the outcome is error without a reply text, and
\* neither send_reply nor save_draft nor record_send is called.
C17_GenerationFailureIsError ==
    [][ (/\ ExecuteStep
         /\ call'.matched_rule.action \in {"reply", "draft_reply", "flag_and_draft"}
         /\ (call'.gen = None \/ call'.gen = "")) =>
            /\ call'.out.action_taken = "error"
            /\ call'.out.reply_text = None
            /\ NoMailCall(call'.out.calls)
            /\ ~HasCall(call'.out.calls, "record_send")
            /\ sendLog' = sendLog
            /\ send_timestamps' = send_timestamps ]_vars

\* C17 witness: the generator returned the empty text for a reply rule that
\* may be sent automatically outside dry-run, and the outcome is error.
C17_Witness ==
    /\ ReplyFamilyExecuted
    /\ call.gen = ""
    /\ call.safety_decision.can_auto_send
    /\ ~dry_run
    /\ call.out.action_taken = "error"
    /\ call.out.calls = <<"generate_reply">>

\* the decisions for which both dispatchers are compared: every decision for
\* the ActionFactory handler; for EmailAgent._execute_action those that do
\* not grant can_auto_send to a rule that does not request auto_send
HandlerDecision ==
    dispatcher' = "registry"
        \/ (call'.safety_decision.can_auto_send => call'.matched_rule.auto_send)

\* C18: for a reply-family rule with a generated reply, send_reply is called
\* iff can_auto_send and not dry-run; if it succeeds the outcome is reply_sent
\* and record_send is called once, if it fails the outcome is error and
\* neither record_send nor save_draft is called.
C18_SendIffAutoSendOutsideDryRun ==
    [][ (/\ ExecuteStep
         /\ call'.matched_rule.action \in {"reply", "draft_reply", "flag_and_draft"}
         /\ call'.gen # None /\ call'.gen # ""
         /\ HandlerDecision) =>
            /\ HasCall(call'.out.calls, "send_reply")
                  <=> (call'.safety_decision.can_auto_send /\ ~dry_run)
            /\ CountOf(call'.out.calls, "send_reply") <= 1
            /\ (HasCall(call'.out.calls, "send_reply") /\ call'.sendOk) =>
                  /\ call'.out.action_taken = "reply_sent"
                  /\ CountOf(call'.out.calls, "record_send") = 1
                  /\ sendLog' = Append(sendLog, now)
                  /\ send_timestamps' = Append(send_timestamps, now)
            /\ (HasCall(call'.out.calls, "send_reply") /\ ~call'.sendOk) =>
                  /\ call'.out.action_taken = "error"
                  /\ ~HasCall(call'.out.calls, "record_send")
                  /\ ~HasCall(call'.out.calls, "save_draft")
                  /\ sendLog' = sendLog
                  /\ send_timestamps' = send_timestamps ]_vars

\* C18 witness: a send failed after an earlier one succeeded: one send is
\* recorded, the outcome is error and no draft was saved.
C18_Witness ==
    /\ ReplyFamilyExecuted
    /\ dispatcher = "registry"
    /\ GeneratedOk
    /\ call.safety_decision.can_auto_send
    /\ ~dry_run
    /\ ~call.sendOk
    /\ call.out.action_taken = "error"
    /\ call.out.calls = <<"generate_reply", "send_reply">>
    /\ Len(sendLog) = 1

\* C19 (ReplyAction.execute): for a reply-family rule with a generated reply
\* that is not sent, save_draft is called once outside dry-run and not at all
\* in dry-run, and the outcome is flagged_and_drafted iff the action is
\* flag_and_draft and draft_saved otherwise.
C19_DraftPath ==
    (/\ ReplyFamilyExecuted
     /\ dispatcher = "registry"
     /\ GeneratedOk
     /\ ~HasCall(call.out.calls, "send_reply")) =>
        /\ CountOf(call.out.calls, "save_draft") = (IF dry_run THEN 0 ELSE 1)
        /\ call.out.action_taken
              = (IF call.matched_rule.action = "flag_and_draft"
                 THEN "flagged_and_drafted" ELSE "draft_saved")
        /\ call.out.reply_text = call.gen
        /\ ~HasCall(call.out.calls, "record_send")

\* C19 witness: a flag_and_draft rule that may not be sent automatically has
\* its draft saved once, outside dry-run, although save_draft reports failure.
C19_Witness ==
    /\ ReplyFamilyExecuted
    /\ dispatcher = "registry"
    /\ call.matched_rule.action = "flag_and_draft"
    /\ ~call.safety_decision.can_auto_send
    /\ ~dry_run
    /\ ~call.draftOk
    /\ call.out.action_taken = "flagged_and_drafted"
    /\ call.out.calls = <<"generate_reply", "save_draft">>

\* C20: in dry-run, whatever the batch, send_reply, save_draft and
\* archive_email are never called, record_send is never called and no outcome
\* is reply_sent.
C20_DryRunNoMailboxEffect ==
    dry_run =>
        /\ NoMailCall(effects.calls)
        /\ ~HasCall(effects.calls, "record_send")
        /\ effects.sent = <<>>
        /\ sendLog = <<>>
        /\ send_timestamps = <<>>
        /\ \A i \in 1..Len(results) : results[i] # "reply_sent"

\* C20 witness: in dry-run the ActionFactory handler generated a reply for the
\* second message of a batch and returned draft_saved without saving it.
C20_Witness ==
    /\ dry_run
    /\ dispatcher = "registry"
    /\ Len(results) = 2
    /\ effects.msg = 2
    /\ results[2] = "draft_saved"
    /\ effects.calls = <<"generate_reply">>

----------------------------------------------------------------------------
(* Batch claims: EmailAgent.run over the messages of a batch *)

ActionsTaken ==
    {"reply_sent", "draft_saved", "flagged", "flagged_and_drafted", "archived",
     "ignored", "skipped", "error"}

\* a step of run() that takes up a message or finishes one
MessageStep == results' # results \/ pc' # pc

\* the position in the batch of the message a step works on
IndexOfStep == IF pc = "idle" THEN call'.index ELSE call.index

\* C21: the messages of a batch are taken one after the other; each gets
\* exactly one outcome, appended at its position in the batch, also when the
\* classifier or a collaborator raised while it was processed; and whatever
\* the outcomes so far, the next message of the batch can be processed.
C21_OneOutcomePerMessage ==
    /\ [][ MessageStep =>
            /\ IndexOfStep = Len(results) + 1
            /\ \/ /\ pc' = "decided"
                  /\ results' = results
               \/ /\ pc' = "idle"
                  /\ Len(results') = IndexOfStep
                  /\ SubSeq(results', 1, IndexOfStep - 1) = results
                  /\ results'[IndexOfStep] \in ActionsTaken
                  /\ effects'.msg = IndexOfStep
                  /\ effects'.raised # None =>
                        results'[IndexOfStep] = "error" ]_vars
    /\ [](effects.msg = Len(results))
    /\ []((pc = "idle" /\ Len(results) < MaxBatch) => ENABLED Decide)

\* C21 witness: the classifier raised on the first message of a batch, a
\* collaborator raised while the second was handled, both have their outcome.
C21_Witness ==
    /\ Len(results) = 2
    /\ results[1] = "error"
    /\ results[2] = "error"
    /\ effects.msg = 2
    /\ effects.raised = "send_reply"
    /\ effects.calls = <<"generate_reply", "send_reply">>

\* the rule the message of a finishing step was matched by
RuleOfStep == IF pc = "idle" THEN call'.matched_rule ELSE cur.matched_rule

\* a step of run() that finishes a message
FinishStep == MessageStep /\ pc' = "idle"

\* C22: a message during whose processing the classifier or a collaborator
\* raised, generate_reply returned None, or send_reply or archive_email
\* returned False has the outcome error, never skipped; and skipped is the
\* outcome only where no rule matched, no handler knows the action, or a
\* flag / archive rule was denied can_execute.
C22_FailureIsErrorNotSkipped ==
    [][ FinishStep =>
          /\ (\/ effects'.raised # None
              \/ effects'.failed
                    \in {"generate_reply", "send_reply", "archive_email"}) =>
                results'[Len(results')] = "error"
          /\ results'[Len(results')] = "skipped" =>
                /\ effects'.raised = None
                /\ \/ RuleOfStep = NoRule
                   \/ RuleOfStep.action \notin ValidActions
                   \/ /\ RuleOfStep.action \in {"flag", "archive"}
                      /\ ~cur.safety_decision.can_execute ]_vars

\* C22 witness: the classifier raised on the first message, whose outcome is
\* error, and the second was skipped by the dispatch because no handler knows
\* its action (nothing is denied: no dry-run, threshold 0, no send so far).
C22_Witness ==
    /\ Len(results) = 2
    /\ call = NoCall
    /\ results[1] = "error"
    /\ results[2] = "skipped"
    /\ effects.msg = 2
    /\ effects.raised = None
    /\ effects.failed = None
    /\ sendLog = <<>>
    /\ ~dry_run
    /\ confidence_threshold = 0

----------------------------------------------------------------------------
(* Classification-failure claim *)

\* C23: for the fallback classification (confidence 0) the safety gate denies
\* can_execute and can_auto_send for every action outside the safe set.
C23_FallbackDeniedForNonSafe ==
    (/\ Evaluated
     /\ call.classification = FallbackClassification
     /\ NonSafeRule(call.matched_rule)) =>
        /\ ~call.decision.can_execute
        /\ ~call.decision.can_auto_send

----------------------------------------------------------------------------
(* Empty-rule claim *)

\* the rules of the list that list at least one condition, all of which hold
\* for the last match call
Satisfied ==
    { i \in 1..Len(rules) :
        /\ DOMAIN rules[i].conditions # {}
        /\ AllListedHold(rules[i], call.email_data, call.classification) }

\* C24: a rule without conditions is never the rule match returns: a list of
\* such rules only yields none, and where a rule with conditions is satisfied
\* the first such rule is returned, whatever empty rules stand before it.
C24_EmptyRuleNeverMatches ==
    call.op = "match" =>
        IF Satisfied = {}
        THEN call.result = NoRule
        ELSE /\ call.result # NoRule
             /\ call.result.rule_name = rules[MinOf(Satisfied)].name

----------------------------------------------------------------------------
(* Transport-failure claims of the thread resolver *)

SeqToSet(seq) == { seq[i] : i \in 1..Len(seq) }

\* the queries a resolution issued that raised
FailedQueries == SeqToSet(call.result.queries) \cap call.failing

\* the stored messages a query of the resolution that did not raise matches
\* and whose fetch succeeds
Delivered ==
    { m \in SeqToSet(call.mailbox) :
        /\ FetchOp(m.message_id) \notin call.failing
        /\ \E q \in SeqToSet(call.result.queries) \ call.failing :
              \/ q.kind = "header" /\ StrIn(q.value, m.message_id)
              \/ q.kind = "subject"
                    /\ StrIn(LowerStr(q.value), LowerStr(m.subject)) }

\* a transport operation failed during the resolution: the connection, a
\* search that was issued, or the fetch of a message a search had found
TransportFailed ==
    \/ (call.op = "fetch_thread_context" /\ ConnectOp \in call.failing
          /\ (call.email_data.message_id # NoId
                \/ IsPartOfThread(call.email_data)))
    \/ FailedQueries # {}
    \/ \E m \in SeqToSet(call.mailbox) :
          /\ FetchOp(m.message_id) \in call.failing
          /\ \E q \in SeqToSet(call.result.queries) \ call.failing :
                q.kind = "header" /\ StrIn(q.value, m.message_id)

----------------------------------------------------------------------------
(* The classifier (src/src/clients/gemini_agent.py): what classify_email     *)
(* makes of the answers of the model. An answer is a record: kind "json"     *)
(* with data, the parsed JSON object (a record of the keys it holds), kind   *)
(* "invalid" when json.loads raises JSONDecodeError, kind "error" when       *)
(* generate_content raises.                                                  *)

valid_intents == PipelineIntents
valid_priorities == {"high", "medium", "low"}

\* max(0.0, min(1.0, confidence)), in hundredths
Clamp(confidence) ==
    IF confidence > 100 THEN 100 ELSE IF confidence < 0 THEN 0 ELSE confidence

\* GeminiAgent._parse_classification_response, once json.loads succeeded
ParseClassificationResponse(data) ==
    LET intent == IF "intent" \in DOMAIN data THEN data.intent
                  ELSE "general_inquiry"
        priority == IF "priority" \in DOMAIN data THEN data.priority
                    ELSE "medium"
        confidence == IF "confidence" \in DOMAIN data THEN data.confidence
                      ELSE 50
    IN  [intent |-> IF intent \in valid_intents THEN intent
                    ELSE "general_inquiry",
         priority |-> IF priority \in valid_priorities THEN priority
                      ELSE "medium",
         confidence |-> Clamp(confidence)]

\* GeminiAgent._retry_classification: result and number of answers used
RetryClassification(retry) ==
    [classification |-> IF retry.kind = "json"
                        THEN ParseClassificationResponse(retry.data)
                        ELSE FallbackClassification,
     used |-> 3]

\* GeminiAgent._classify_with_legacy
ClassifyWithLegacy(legacy, retry) ==
    CASE legacy.kind = "json" ->
            [classification |-> ParseClassificationResponse(legacy.data),
             used |-> 2]
      [] legacy.kind = "invalid" -> RetryClassification(retry)
      [] OTHER -> [classification |-> FallbackClassification, used |-> 2]

\* GeminiAgent._classify_with_json_mode: data["intent"], data["priority"] and
\* data["confidence"] raise KeyError when the key is missing, and every
\* exception leads to the legacy path
ClassifyWithJsonMode(json, legacy, retry) ==
    IF json.kind = "json" /\ DOMAIN json.data = {"intent", "priority", "confidence"}
    THEN [classification |->
             [intent |-> json.data.intent,
              priority |-> json.data.priority,
              confidence |-> Clamp(json.data.confidence)],
          used |-> 1]
    ELSE ClassifyWithLegacy(legacy, retry)

\* GeminiAgent.classify_email: the JSON-mode path or the legacy path
ClassifyEmail(use_json_mode, json, legacy, retry) ==
    IF use_json_mode THEN ClassifyWithJsonMode(json, legacy, retry)
    ELSE ClassifyWithLegacy(legacy, retry)

\* the JSON objects the model may answer with: any subset of the three keys,
\* with known and unknown tags and confidences inside and outside [0, 1]
AnswerData ==
    { [k \in K |-> d[k]] :
        K \in SUBSET {"intent", "priority", "confidence"},
        d \in [intent : {"spam", "promotion"},
               priority : {"high", "urgent"},
               confidence : {-50, 90, 150}] }

NoAnswer == [kind |-> "error"]

Answers ==
    { [kind |-> "json", data |-> d] : d \in AnswerData }
    \cup { [kind |-> "invalid"], NoAnswer }

InitClassify ==
    /\ rules = <<>>
    /\ dry_run = TRUE
    /\ confidence_threshold = 85
    /\ max_sends_per_hour = 1
    /\ dispatcher = "inline"
    /\ InitCommon

\* gemini.classify_email(email_data), with the answers the model gives to the
\* JSON-mode request, the legacy request and the retry request
ClassifyEmailCall ==
    /\ call.op = "none"
    /\ \E use_json_mode \in BOOLEAN, json \in Answers, legacy \in Answers,
          retry \in Answers :
        \E out \in {ClassifyEmail(use_json_mode, json, legacy, retry)} :
            \* an answer that was not asked for is not enumerated
            /\ use_json_mode \/ json = NoAnswer
            /\ out.used >= 2 \/ legacy = NoAnswer
            /\ out.used >= 3 \/ retry = NoAnswer
            /\ call' = [op |-> "classify_email",
                        use_json_mode |-> use_json_mode,
                        json |-> json, legacy |-> legacy, retry |-> retry,
                        result |-> out.classification]
    /\ UNCHANGED <<rules, dry_run, confidence_threshold, max_sends_per_hour,
                   send_timestamps, now, nticks, sendLog, dispatcher, pc, cur,
                   results, effects>>

NextClassify == ClassifyEmailCall

SpecClassify == InitClassify /\ [][NextClassify]_vars

\* C26: whatever path classify_email takes (JSON mode, legacy parsing, retry,
\* fallback), the classification it returns has a confidence in [0, 1], an
\* intent of the eight intents and a priority of high, medium, low.
C26_ClassificationWellFormed ==
    call.op = "classify_email" =>
        /\ call.result.confidence \in 0..100
        /\ call.result.intent \in valid_intents
        /\ call.result.priority \in valid_priorities

----------------------------------------------------------------------------
(* The prior-messages list of one message, from fetch_unread_emails to the   *)
(* reply generator: EmailProcessor.process_single_email on a message that    *)
(* clients.GmailClient fetched. cur is the EmailData object, call the        *)
(* history: the list the resolver produced last and the lists the classifier *)
(* and the reply generator were handed.                                      *)

NotSeen == [seen |-> FALSE]
Saw(thread_messages) == [seen |-> TRUE, thread_messages |-> thread_messages]

InitContext ==
    /\ rules = <<>>
    /\ dry_run = TRUE
    /\ confidence_threshold = 85
    /\ max_sends_per_hour = 1
    /\ dispatcher = "registry"
    /\ InitCommon

\* fetch_unread_emails, step 5, for one unread message: the EmailData object
\* with thread_messages as _populate_thread_context leaves it
FetchUnreadEmail ==
    /\ pc = "idle"
    /\ \E n \in 0..MaxMailbox, thread_context_depth \in 0..MaxDepth :
        \E mailbox \in Mailboxes(n), email_data \in SourceMessages :
          \E thread_messages \in
                { IF thread_context_depth > 0 /\ IsPartOfThread(email_data)
                  THEN PopulateThreadContext(Connection(mailbox, {}), email_data,
                                             thread_context_depth).thread_messages
                  ELSE <<>> } :
            /\ cur' = [message_id |-> email_data.message_id,
                       reference_chain |-> email_data.reference_chain,
                       in_reply_to |-> email_data.in_reply_to,
                       subject |-> email_data.subject,
                       thread_messages |-> thread_messages]
            /\ call' = [op |-> "fetch_unread_emails",
                        mailbox |-> mailbox,
                        thread_context_depth |-> thread_context_depth,
                        resolved |-> thread_messages,
                        classifier |-> NotSeen,
                        generator |-> NotSeen]
    /\ pc' = "fetched"
    /\ UNCHANGED <<rules, dry_run, confidence_threshold, max_sends_per_hour,
                   send_timestamps, now, nticks, sendLog, dispatcher, results,
                   effects>>

\* process_single_email: if email_data.in_reply_to:
\*     email_data.thread_messages = self.gmail.fetch_thread_context(
\*         email_data.in_reply_to)
ThreadFetchStep ==
    /\ pc = "fetched"
    /\ \E thread_messages \in
          { IF cur.in_reply_to # NoId
            THEN FetchThreadContext(Connection(call.mailbox, {}),
                                    cur.in_reply_to, <<>>, NoId, <<>>, NoMax,
                                    call.thread_context_depth).thread_messages
            ELSE cur.thread_messages } :
        /\ cur' = [cur EXCEPT !.thread_messages = thread_messages]
        /\ call' = [call EXCEPT !.op = "process_single_email",
                                !.resolved = thread_messages]
    /\ pc' = "resolved"
    /\ UNCHANGED <<rules, dry_run, confidence_threshold, max_sends_per_hour,
                   send_timestamps, now, nticks, sendLog, dispatcher, results,
                   effects>>

ThreadAfterReadTruncating(thread_messages) ==
    IF thread_messages = <<>> THEN <<>> ELSE LastSlice(thread_messages, 1)

\* email_data.thread_messages after _build_thread_context read it: the slice
\* all_thread_msgs[-max_depth:] is a new list, the attribute is not assigned
ThreadAfterRead(thread_messages) == thread_messages

\* steps 1 to 3 of process_single_email: classify_email is handed the
\* EmailData object and reads its list; match and evaluate do not read it
ClassifyStep ==
    /\ pc = "resolved"
    /\ call' = [call EXCEPT !.classifier = Saw(cur.thread_messages)]
    /\ cur' = [cur EXCEPT !.thread_messages = ThreadAfterRead(cur.thread_messages)]
    /\ pc' = "classified"
    /\ UNCHANGED <<rules, dry_run, confidence_threshold, max_sends_per_hour,
                   send_timestamps, now, nticks, sendLog, dispatcher, results,
                   effects>>

\* step 4 of process_single_email for a rule of the reply family:
\* generate_reply is handed the EmailData object and reads its list
GenerateStep ==
    /\ pc = "classified"
    /\ call' = [call EXCEPT !.generator = Saw(cur.thread_messages)]
    /\ cur' = [cur EXCEPT !.thread_messages = ThreadAfterRead(cur.thread_messages)]
    /\ pc' = "done"
    /\ UNCHANGED <<rules, dry_run, confidence_threshold, max_sends_per_hour,
                   send_timestamps, now, nticks, sendLog, dispatcher, results,
                   effects>>

NextContext == FetchUnreadEmail \/ ThreadFetchStep \/ ClassifyStep \/ GenerateStep

SpecContext == InitContext /\ [][NextContext]_vars

----------------------------------------------------------------------------
(* Classifier-call claim *)

\* the calls a step of the pipeline has made for its message so far: the
\* steps before the dispatch and, for the dispatching step, the handler
\* ("execute") and the calls the handler made
StepsOfMessage ==
    IF pc = "idle" THEN call'.steps
    ELSE call.steps \o <<"execute">> \o effects'.calls

\* C28: for each message of a batch classify_email is called at most once,
\* and match, evaluate and the handler are called only after it.
C28_ClassifyOnceAndFirst ==
    [][ MessageStep =>
          /\ CountOf(StepsOfMessage, "classify_email") <= 1
          /\ \A i \in 1..Len(StepsOfMessage) :
                StepsOfMessage[i] # "classify_email" =>
                    \E j \in 1..(i - 1) : StepsOfMessage[j] = "classify_email"
        ]_vars

\* C28 witness: the second message of a batch was classified, matched,
\* evaluated and dispatched to a handler that generated and sent a reply.
C28_Witness ==
    /\ Len(results) = 2
    /\ results[1] = "skipped"
    /\ results[2] = "reply_sent"
    /\ call = NoCall
    /\ effects.msg = 2
    /\ effects.calls = <<"generate_reply", "send_reply", "record_send">>

----------------------------------------------------------------------------
(* The order of the resolver's searches *)

Strategies == call.result.strategies

\* the identifiers seen when the k-th search of the chain walk was issued: the
\* resolved message's own and those of the messages accumulated until then
SeenBefore(k) ==
    ({call.email_data.message_id} \ {NoId})
        \cup MessageIdsOf(SubSeq(Strategies.chain.messages, 1,
                                 Strategies.chain.before[k]))

\* the searches are issued chain first, then direct parent, then subject; the
\* direct parent is searched only after a chain search without result and
\* the subject only after both were without result
StrategiesInOrder ==
    /\ call.result.queries = Strategies.chain.queries
                                \o Strategies.parent.queries
                                \o Strategies.subject.queries
    /\ \A k \in 1..Len(Strategies.chain.queries) :
          Strategies.chain.queries[k].kind = "header"
    /\ Strategies.parent.queries \in
          { <<>>, << HeaderQuery(call.email_data.in_reply_to) >> }
    /\ \A k \in 1..Len(Strategies.subject.queries) :
          Strategies.subject.queries[k].kind = "subject"
    /\ Strategies.parent.queries # <<>> => Strategies.chain.messages = <<>>
    /\ Strategies.subject.queries # <<>> =>
          /\ Strategies.chain.messages = <<>>
          /\ Strategies.parent.messages = <<>>

\* no search of the chain walk is for an identifier seen by then
ChainSkipsSeen ==
    \A k \in 1..Len(Strategies.chain.queries) :
        Strategies.chain.queries[k].value \notin SeenBefore(k)

\* no search of the chain walk is issued with depth_limit messages accumulated
ChainStopsAtDepthLimit ==
    \A k \in 1..Len(Strategies.chain.queries) :
        Strategies.chain.before[k] < DepthLimit

\* C29: the resolver searches in the order ancestor chain, direct parent,
\* subject, and stops at the first strategy with a result: the direct parent
\* is searched only if the chain search found nothing and the subject only if
\* both found nothing; the chain walk searches for no identifier already seen
\* and issues no search once depth_limit messages are accumulated.
C29_StrategyOrderAndChainWalk ==
    Resolved =>
        /\ StrategiesInOrder
        /\ ChainSkipsSeen
        /\ ChainStopsAtDepthLimit

----------------------------------------------------------------------------
(* The final step of the resolver *)

\* what the strategies accumulated, in the order they found it
Accumulated ==
    Strategies.chain.messages \o Strategies.parent.messages
        \o Strategies.subject.messages

\* the instant of a prior message; a missing or unparseable timestamp counts
\* as 0, before every instant
Timestamp(msg) == IF msg.date.kind = "none" THEN 0 ELSE msg.date.t

\* the messages accumulated, those with the same identifier counted once
NumberOfUnique ==
    Cardinality(MessageIdsOf(Accumulated))
        + Cardinality({ i \in 1..Len(Accumulated) :
                            Accumulated[i].message_id = NoId })

SortedOldestFirst(msgs) ==
    \A i, j \in 1..Len(msgs) :
        i < j => Timestamp(msgs[i]) <= Timestamp(msgs[j])

FreeOfDuplicates(msgs) ==
    \A i, j \in 1..Len(msgs) :
        (i < j /\ msgs[i].message_id # NoId) =>
            msgs[i].message_id # msgs[j].message_id

\* msgs holds the n most recent of the accumulated messages, or all of them
\* when they are fewer
MostRecentOfAccumulated(msgs, n) ==
    /\ SeqToSet(msgs) \subseteq SeqToSet(Accumulated)
    /\ Len(msgs) = IF NumberOfUnique < n THEN NumberOfUnique ELSE n
    /\ \A m \in SeqToSet(Accumulated) :
          (/\ m \notin SeqToSet(msgs)
           /\ m.message_id \notin MessageIdsOf(msgs)) =>
              \A i \in 1..Len(msgs) : Timestamp(m) <= Timestamp(msgs[i])

\* C30: the prior messages a resolution returns are the accumulated ones
\* sorted by timestamp ascending, those with a missing or unparseable
\* timestamp first, free of duplicate identifiers and truncated to the
\* depth_limit most recent, whatever mix of parseable and unparseable
\* timestamps was accumulated.
C30_SortedDedupedTruncated ==
    (Resolved /\ call.result.connected) =>
        /\ SortedOldestFirst(call.result.thread_messages)
        /\ FreeOfDuplicates(call.result.thread_messages)
        /\ MostRecentOfAccumulated(call.result.thread_messages, DepthLimit)

----------------------------------------------------------------------------
(* A message without thread-linking fields *)

NoThreadLinks ==
    /\ call.email_data.in_reply_to = NoId
    /\ call.email_data.reference_chain = <<>>

\* C31: a message with neither a reply pointer nor an ancestor chain resolves
\* to the empty sequence of prior messages, and the resolver opens no
\* connection and issues no search for it, whether or not the message has an
\* identifier of its own and a subject.
C31_NoLinksNoQuery ==
    (Resolved /\ NoThreadLinks) =>
        /\ call.result.thread_messages = <<>>
        /\ call.result.queries = <<>>
        /\ ~call.result.connected

----------------------------------------------------------------------------
(* The reason tokens of a safety decision *)

ConfidenceTokens == {"confidence_ok", "confidence_too_low"}

RateLimitTokens == {"rate_limit_ok", "rate_limit_exceeded"}

\* C32 as stated: the reasons list of every decision holds three tokens, one
\* for the dry-run check whether dry-run is active or not, then one of
\* confidence_ok / confidence_too_low, then one of rate_limit_ok /
\* rate_limit_exceeded.
C32_ThreeTokensAlways ==
    Evaluated =>
        /\ Len(call.decision.reasons) = 3
        /\ call.decision.reasons[1] \notin ConfidenceTokens \cup RateLimitTokens
        /\ call.decision.reasons[2] \in ConfidenceTokens
        /\ call.decision.reasons[3] \in RateLimitTokens

\* C32 amended: the reasons list holds dry_run_active first exactly when
\* dry-run is active and no dry-run token otherwise, followed by exactly one
\* confidence token and then exactly one rate-limit token, each telling
\* whether its check passed: the list has three tokens in dry-run and two
\* outside it.
C32_ReasonsInOrder ==
    Evaluated =>
        LET reasons == call.decision.reasons
            n == Len(reasons)
        IN  /\ n = IF dry_run THEN 3 ELSE 2
            /\ dry_run => reasons[1] = "dry_run_active"
            /\ reasons[n - 1] \in ConfidenceTokens
            /\ reasons[n - 1] = "confidence_ok" <=>
                  call.classification.confidence >= confidence_threshold
            /\ reasons[n] \in RateLimitTokens
            /\ reasons[n] = "rate_limit_ok" <=>
                  SendsInWindow < max_sends_per_hour

\* C32 witness: outside dry-run both checks failed and the list holds their
\* two tokens only.
C32_Witness ==
    /\ Evaluated
    /\ ~dry_run
    /\ call.decision.reasons = <<"confidence_too_low", "rate_limit_exceeded">>

----------------------------------------------------------------------------
(* Two safety gates that differ in dry-run only: SafetyModule(config) sets   *)
(* self.dry_run = config.dry_run and starts with its own deque. The second    *)
(* gate is given the classification, the rule and the recorded sends of the   *)
(* first, at the same time of the clock, and the decision of the first is     *)
(* kept for comparison.                                                       *)

\* evaluate(classification, matched_rule) on the gate with the other dry-run
\* flag, after the same call on the first gate
TwinEvaluateCall ==
    /\ call.op = "evaluate"
    /\ dry_run' = ~dry_run
    /\ send_timestamps' = CleanedTimestamps
    /\ UNCHANGED <<rules, confidence_threshold, max_sends_per_hour, now, nticks,
                   sendLog, dispatcher, pc, cur, results, effects>>
    /\ \E classification \in {call.classification},
          matched_rule \in {call.matched_rule} :
            call' = [op |-> "evaluate_twin",
                     classification |-> classification,
                     matched_rule |-> matched_rule,
                     decision |-> Evaluate(classification, matched_rule)',
                     first |-> call]

NextTwin == EvaluateCall \/ TwinEvaluateCall \/ RecordSendCall \/ Tick

SpecTwin == InitSafety /\ [][NextTwin]_vars

TokensOf(decision, tokens) ==
    SelectSeq(decision.reasons, LAMBDA token : token \in tokens)

\* C33: two gates that differ in dry-run only and are given the same
\* classification, rule and recorded sends produce the same confidence token
\* and the same rate-limit token, and the decision of the one in dry-run has
\* can_execute false.
C33_TokensIndependentOfDryRun ==
    call.op = "evaluate_twin" =>
        /\ Len(TokensOf(call.decision, ConfidenceTokens)) = 1
        /\ TokensOf(call.decision, ConfidenceTokens)
              = TokensOf(call.first.decision, ConfidenceTokens)
        /\ Len(TokensOf(call.decision, RateLimitTokens)) = 1
        /\ TokensOf(call.decision, RateLimitTokens)
              = TokensOf(call.first.decision, RateLimitTokens)
        /\ dry_run => ~call.decision.can_execute
        /\ ~dry_run => ~call.first.decision.can_execute

\* C33 witness: the gate outside dry-run allowed a rule with the rate limit
\* exceeded, and its twin in dry-run reports the same two tokens and denies.
C33_Witness ==
    /\ call.op = "evaluate_twin"
    /\ dry_run
    /\ call.first.decision.can_execute
    /\ ~call.decision.can_execute
    /\ call.first.decision.reasons = <<"confidence_ok", "rate_limit_exceeded">>
    /\ call.decision.reasons
          = <<"dry_run_active", "confidence_ok", "rate_limit_exceeded">>

----------------------------------------------------------------------------
(* The gate with a cap whose 80% lies below the cap, and enough record_send  *)
(* calls to reach it                                                          *)

InitWarning ==
    /\ rules = <<>>
    /\ dry_run \in BOOLEAN
    /\ confidence_threshold = 85
    /\ max_sends_per_hour \in {1, MaxWarnCap}
    /\ dispatcher = "inline"
    /\ InitCommon

\* safety.record_send(), up to MaxWarnCap times
RecordSendToCapCall ==
    /\ Len(sendLog) < MaxWarnCap
    /\ send_timestamps' = Append(send_timestamps, now)
    /\ sendLog' = Append(sendLog, now)
    /\ call' = [op |-> "record_send"]
    /\ UNCHANGED <<rules, dry_run, confidence_threshold, max_sends_per_hour,
                   now, nticks, dispatcher, pc, cur, results, effects>>

NextWarning == EvaluateCall \/ RecordSendToCapCall \/ Tick

SpecWarning == InitWarning /\ [][NextWarning]_vars

Warned == call.decision.warnings # <<>>

\* C34: evaluate emits the approaching_rate_limit warning iff the sends
\* recorded in the trailing window are at least 80% of max_sends_per_hour
\* (5 * sends >= 4 * cap), and the warning decides nothing: can_execute and
\* can_auto_send are what dry-run, the confidence check, the rate-limit check,
\* the action and auto_send make them, with or without the warning.
C34_WarningAtEightyPercent ==
    Evaluated =>
        /\ Warned <=> 5 * SendsInWindow >= 4 * max_sends_per_hour
        /\ Len(call.decision.warnings) <= 1
        /\ call.decision.can_execute <=>
              /\ ~dry_run
              /\ call.classification.confidence >= confidence_threshold
              /\ \/ SafeSetRule(call.matched_rule)
                 \/ SendsInWindow < max_sends_per_hour
        /\ call.decision.can_auto_send <=>
              /\ call.decision.can_execute
              /\ call.matched_rule # NoRule
              /\ call.matched_rule.auto_send
              /\ SendsInWindow < max_sends_per_hour

\* C34 witness: four sends of a cap of five lie in the window; the decision
\* carries the warning and still allows the reply to be sent.
C34_Witness ==
    /\ Evaluated
    /\ max_sends_per_hour = 5
    /\ SendsInWindow = 4
    /\ Warned
    /\ call.decision.can_execute
    /\ call.decision.can_auto_send

----------------------------------------------------------------------------
(* What the calls of the gate do to the rate-limit counter *)

\* a step of evaluate or get_status
ReadingStep == call'.op \in {"evaluate", "get_status"}

\* the deque afterwards is what is left of the deque before when entries are
\* dropped from its left end, each of them older than the window
OnlyEvicted ==
    \E k \in 0..Len(send_timestamps) :
        /\ send_timestamps' = SubSeq(send_timestamps, k + 1, Len(send_timestamps))
        /\ \A i \in 1..k : send_timestamps[i] < now - WindowSeconds

\* C35: evaluate and get_status add no entry to the rate-limit counter; all
\* they do to it is evict timestamps older than the window. The number of
\* recorded sends grows only in record_send, by exactly one per call, so
\* evaluating without sending uses up none of the rate-limit budget.
C35_OnlyRecordSendCounts ==
    /\ [][ ReadingStep =>
              (OnlyEvicted /\ sendLog' = sendLog /\ now' = now) ]_vars
    /\ [][ (Len(send_timestamps') > Len(send_timestamps)) =>
              (/\ call'.op = "record_send"
               /\ send_timestamps' = Append(send_timestamps, now)) ]_vars
    /\ [][ (call'.op = "record_send") =>
              (Len(send_timestamps') = Len(send_timestamps) + 1) ]_vars

\* C35 witness: of two recorded sends an evaluate evicted the one that left
\* the window and kept the other.
C35_Witness ==
    /\ call.op \in {"evaluate", "get_status"}
    /\ Len(sendLog) = 2
    /\ Len(send_timestamps) = 1
    /\ send_timestamps[1] = sendLog[2]

----------------------------------------------------------------------------
(* The reply handlers and can_execute *)

\* the safety decision of the last execute with can_execute negated
OtherExecuteGate ==
    [call.safety_decision EXCEPT !.can_execute = ~call.safety_decision.can_execute]

\* C36: the handler of reply, draft_reply and flag_and_draft does not consult
\* can_execute: its outcome is the same with can_execute negated, and when
\* the reply was generated and can_auto_send is false it takes the draft
\* path and returns draft_saved, or flagged_and_drafted for flag_and_draft,
\* never skipped or error, also when can_execute is false outside dry-run.
C36_ReplyIgnoresCanExecute ==
    ReplyFamilyExecuted =>
        /\ call.out = Dispatch(call.matched_rule, OtherExecuteGate, call.gen,
                               call.sendOk, call.draftOk, call.archiveOk)
        /\ (GeneratedOk /\ ~call.safety_decision.can_auto_send) =>
              /\ call.out.action_taken \in {"draft_saved", "flagged_and_drafted"}
              /\ call.out.action_taken = "flagged_and_drafted"
                    <=> call.matched_rule.action = "flag_and_draft"
              /\ ~HasCall(call.out.calls, "send_reply")

\* C36 witness: outside dry-run a reply rule that asks for auto-send was
\* denied both gates, and its reply was saved as a draft.
C36_Witness ==
    /\ ReplyFamilyExecuted
    /\ dispatcher = "registry"
    /\ call.matched_rule = TestRule("reply", TRUE)
    /\ ~call.safety_decision.can_execute
    /\ ~call.safety_decision.can_auto_send
    /\ ~dry_run
    /\ call.out.action_taken = "draft_saved"
    /\ call.out.calls = <<"generate_reply", "save_draft">>

\* C37: on the draft path the outcome does not depend on what save_draft
\* returns: outside dry-run, when save_draft is called and returns False the
\* handler still returns draft_saved, or flagged_and_drafted for
\* flag_and_draft, with the generated text, and not error.
C37_DraftFailureKeepsLabel ==
    (/\ ReplyFamilyExecuted
     /\ HasCall(call.out.calls, "save_draft")
     /\ ~call.draftOk) =>
        /\ ~dry_run
        /\ call.out.action_taken # "error"
        /\ call.out.action_taken
              = DraftLabel(call.matched_rule.action)
        /\ call.out = Dispatch(call.matched_rule, call.safety_decision,
                               call.gen, call.sendOk, TRUE, call.archiveOk)

\* C37 witness: save_draft failed for a draft_reply rule outside dry-run and
\* the outcome is draft_saved.
C37_Witness ==
    /\ ReplyFamilyExecuted
    /\ call.matched_rule.action = "draft_reply"
    /\ ~dry_run
    /\ ~call.draftOk
    /\ HasCall(call.out.calls, "save_draft")
    /\ call.out.action_taken = "draft_saved"
    /\ call.out.reply_text = "text"

----------------------------------------------------------------------------
(* Archive and flag rules in dry-run, with the decision of the gate *)

\* C38: the decision the pipeline hands to the handler is the one the gate made
\* under the same dry-run flag, so in dry-run can_execute is false and the
\* branch of the archive handler for can_execute in dry-run is never taken:
\* in dry-run every archive rule and every flag rule ends as skipped, without
\* a collaborator call, never as a simulated archived or as flagged.
C38_ArchiveAndFlagSkippedInDryRun ==
    /\ []((pc = "decided" /\ dry_run) => ~cur.safety_decision.can_execute)
    /\ [][ (/\ pc = "decided"
            /\ pc' = "idle"
            /\ dry_run
            /\ cur.matched_rule.action \in {"archive", "flag"}) =>
               (/\ results' = Append(results, "skipped")
                /\ effects'.calls = <<>>
                /\ effects'.raised = None) ]_vars

\* C38 witness: in dry-run the gate has decided on an archive rule whose
\* confidence check and rate-limit check passed; the decision denies
\* execution and the archive handler answers skipped.
C38_Witness ==
    /\ pc = "decided"
    /\ dry_run
    /\ cur.matched_rule.action = "archive"
    /\ cur.safety_decision.reasons
          = <<"dry_run_active", "confidence_ok", "rate_limit_ok">>
    /\ ~cur.safety_decision.can_execute
    /\ ArchiveOutcome(cur.safety_decision, TRUE) = Outcome("skipped", None, <<>>)

----------------------------------------------------------------------------
(* The configured depth after a resolution *)

----------------------------------------------------------------------------
(* The two dispatchers side by side *)

\* the calls of a handler to send_reply, archive_email and record_send
SendArchiveRecord(calls) ==
    SelectSeq(calls, LAMBDA name :
                        name \in {"send_reply", "archive_email", "record_send"})

\* the outcome of EmailAgent._execute_action for the inputs of the last execute
InlineOutcome ==
    InlineExecute(call.matched_rule, call.safety_decision, call.gen,
                  call.sendOk, call.draftOk, call.archiveOk)

\* the outcome of the ActionFactory handler for the same inputs
RegistryOutcome ==
    RegistryExecute(call.matched_rule, call.safety_decision, call.gen,
                    call.sendOk, call.draftOk, call.archiveOk)

====
